---------------------------- MODULE Spec2Model ----------------------------
(***************************************************************************)
(* A model of the sensor-node firmware in src/src/main.cpp: the credential *)
(* store, the connectivity manager, the delivery pipeline with its durable *)
(* queue, the telemetry scheduler and the main loop, interleaved with the  *)
(* control-channel callbacks and with the radio, the clock and the card.   *)
(*                                                                         *)
(* Strings are sequences of character codes, so that trimming, separator   *)
(* stripping and the search for a comma are computed, not assumed.         *)
(***************************************************************************)
EXTENDS Integers, Sequences, FiniteSets, TLC

(***************************************************************************)
(* Program constants.                                                      *)
(***************************************************************************)
WATCHDOG_TIMEOUT == 3000
FILE_CHECK_INTERVAL == 900000
WIFI_RECONNECT_INTERVAL == 60000
WIFI_CONNECT_ATTEMPTS == 20
AUTO_CONNECT_ATTEMPTS == 8
MAX_WIFI_NETWORKS_SAVED == 5
MAX_FILES == 5
MIN_UPDATE_INTERVAL == 1
MAX_UPDATE_INTERVAL == 86400
HTTP_OK == 200

(***************************************************************************)
(* Bounds of the model.                                                    *)
(***************************************************************************)
\* Network names offered to the credential store: one more than it holds.
NumSsids == MAX_WIFI_NETWORKS_SAVED + 1
\* Requests that wait for loop() at one time: one for each request flag.
RequestKinds == {"scan", "prov"}
MaxPending == Cardinality(RequestKinds)
MaxCardFiles == 3    \* directory entries the card holds before an open fails
MaxReadings == 2     \* sensor readings taken in one run
MaxQueueTime == 1000 \* milliseconds of run time explored for the queue
MaxClockTime == 3720000 \* milliseconds of run time explored for the scheduler
ClockStep == 30000   \* milliseconds one pass of loop() takes at most there
MaxLoopTime == 60001 \* milliseconds of run time explored for the main loop
MaxDogTime == 5000   \* milliseconds of run time explored for the watchdog
DogStep == 1000      \* milliseconds between two looks at the clock there
MaxOwed == 2         \* configuration changes that wait for their fire at one time

(***************************************************************************)
(* Character codes and strings.                                            *)
(***************************************************************************)
SP == 32
COMMA == 44
DASH == 45
DOT == 46
SLASH == 47
COLON == 58
Digit(n) == 48 + n
Letter(i) == 64 + i

Min(a, b) == IF a < b THEN a ELSE b
Max(a, b) == IF a > b THEN a ELSE b

\* String::replace(ch, ""): every occurrence of ch removed.
Strip(str, ch) == SelectSeq(str, LAMBDA c : c # ch)

\* String::trim(): leading and trailing spaces removed.
RECURSIVE TrimLeft(_)
TrimLeft(str) ==
    IF Len(str) > 0 /\ Head(str) = SP THEN TrimLeft(Tail(str)) ELSE str

RECURSIVE TrimRight(_)
TrimRight(str) ==
    IF Len(str) > 0 /\ str[Len(str)] = SP
    THEN TrimRight(SubSeq(str, 1, Len(str) - 1))
    ELSE str

Trim(str) == TrimRight(TrimLeft(str))

\* String::indexOf(ch): the position of the first ch, counted from 1; 0 when
\* there is none (the source counts from 0 and answers -1).
RECURSIVE IndexOf(_, _, _)
IndexOf(str, ch, i) ==
    IF i > Len(str) THEN 0
    ELSE IF str[i] = ch THEN i
    ELSE IndexOf(str, ch, i + 1)

\* String::endsWith(suffix).
EndsWith(str, suffix) ==
    /\ Len(str) >= Len(suffix)
    /\ SubSeq(str, Len(str) - Len(suffix) + 1, Len(str)) = suffix

TXT == <<DOT, Letter(52), Letter(56), Letter(52)>>   \* ".txt"

D2(n) == <<Digit((n \div 10) % 10), Digit(n % 10)>>
D4(n) == D2(n \div 100) \o D2(n % 100)

\* The network names and passwords the credential store is exercised with.
SsidName(i) == <<Letter(19), Letter(i)>>
StoreSsids == {SsidName(i) : i \in 1..NumSsids}
StorePasswords == {<<Letter(16)>>, <<Letter(17)>>}

(***************************************************************************)
(* State.                                                                  *)
(***************************************************************************)
VARIABLES
    \* persistent stores
    wifi_db,            \* Preferences namespace "wifi_db": [hasNets, nets]
    app_conf,           \* Preferences namespace "app_conf": [hasData, data]
    \* configuration in memory
    DEVICE_NICKNAME,
    DEVICE_ID,
    API_URL,
    NTP_SERVER,
    UPDATE_INTERVAL,
    UPDATE_MODE,
    setPoint1,
    setPoint2,
    \* removable storage
    sdReady,
    files,              \* directory of the card in enumeration order
    \* radio
    wifiStatus,         \* WiFi.status(): "CONNECTED" or "DISCONNECTED"
    wifiCfg,            \* credentials of the association the radio is driving
    \* state shared with the control-channel callbacks
    deviceConnected,
    triggerWifiScan,
    wifiConfigReceived,
    watchdogPaused,
    forceHttpNow,
    targetSSID,
    targetPass,
    \* clocks and time references
    now,                \* millis(), also the wall clock since its origin
    timeValid,          \* getLocalTime() succeeds
    sntpStarted,        \* configTime() has been called
    lastFileCheckTime,
    lastHttpTime,
    lastWatchdogTime,
    lastWifiCheck,
    lastClockMinute,
    \* the main task
    pc,                 \* position of the main task in setup() / loop()
    shouldTrigger,
    attempts,
    savedNets,          \* tryAutoConnect: the array read at its start
    netIdx,             \* tryAutoConnect: the entry being tried
    autoFrom,           \* tryAutoConnect: called from "setup" or "loop"
    restarting,         \* ESP.restart() has been called
    \* observations kept for the properties
    credOp,             \* path the last direct call of the credential store took
    autoRun,            \* tryAutoConnect in this pass of loop(): entries begun, result
    provRun,            \* provisioning in this pass of loop(): credentials begun, result
    schedRun,           \* the last scheduler decision in ClockAligned mode
    lastCall,           \* the last sendSensorData / processOfflineFiles call
    nextRid,            \* number of the next reading
    lostRids,           \* readings saveDataOffline dropped without writing
    sessionKill,        \* the watchdog asked for the session to be closed
    lastWrite,          \* the last onWrite: notifications, bus and radio calls
    owedFires,          \* configuration changes whose extra fire is still due
    lastInbound,        \* time of the last inbound message or session connect
    arrivals,           \* requests not yet taken by loop(), in arrival order
    lastFire            \* time of the last fire attempt, 0 before the first

storeVars == <<wifi_db, app_conf>>
confVars == <<DEVICE_NICKNAME, DEVICE_ID, API_URL, NTP_SERVER, UPDATE_INTERVAL,
              UPDATE_MODE, setPoint1, setPoint2>>
sdVars == <<sdReady, files>>
radioVars == <<wifiStatus, wifiCfg>>
flagVars == <<deviceConnected, triggerWifiScan, wifiConfigReceived,
              watchdogPaused, forceHttpNow, targetSSID, targetPass>>
timeVars == <<now, timeValid, sntpStarted, lastFileCheckTime, lastHttpTime,
              lastWatchdogTime, lastWifiCheck, lastClockMinute>>
taskVars == <<pc, shouldTrigger, attempts, savedNets, netIdx, autoFrom,
              restarting>>
seenVars == <<credOp, autoRun, provRun, schedRun, lastCall, nextRid,
              lostRids, sessionKill, lastWrite>>

reqVars == <<owedFires, lastInbound, arrivals, lastFire>>

vars == <<storeVars, confVars, sdVars, radioVars, flagVars, timeVars,
          taskVars, seenVars, reqVars>>

(***************************************************************************)
(* Credential store.                                                       *)
(***************************************************************************)
\* preferences.getString("nets", "[]"): the stored array, "[]" when the key is absent.
GetNets(db) == IF db.hasNets THEN db.nets ELSE <<>>

\* The index of the first entry whose "s" equals ssid, 0 when there is none
\* (the for loop of saveNetworkToMemory, which breaks at the first match).
RECURSIVE FindSsid(_, _, _)
FindSsid(array, ssid, i) ==
    IF i > Len(array) THEN 0
    ELSE IF array[i].s = ssid THEN i
    ELSE FindSsid(array, ssid, i + 1)

\* A plausible slip: the capacity test is off by one.
EvictToFitLate(array) ==
    IF Len(array) > MAX_WIFI_NETWORKS_SAVED THEN Tail(array) ELSE array

\* A plausible slip: the newest entry is evicted instead of the oldest.
RECURSIVE EvictNewest(_)
EvictNewest(array) ==
    IF Len(array) >= MAX_WIFI_NETWORKS_SAVED
    THEN EvictNewest(SubSeq(array, 1, Len(array) - 1))
    ELSE array

\* while (array.size() >= MAX_WIFI_NETWORKS_SAVED) array.remove(0);
RECURSIVE EvictToFit(_)
EvictToFit(array) ==
    IF Len(array) >= MAX_WIFI_NETWORKS_SAVED THEN EvictToFit(Tail(array))
    ELSE array

\* The array saveNetworkToMemory builds from the stored one.
MergeNetwork(array, ssid, pass) ==
    LET i == FindSsid(array, ssid, 1) IN
    IF i > 0 THEN [array EXCEPT ![i].p = pass]
    ELSE Append(EvictToFit(array), [s |-> ssid, p |-> pass])

\* saveNetworkToMemory(ssid, pass): the namespace after the call.
saveNetworkToMemory(db, ssid, pass) ==
    IF Len(ssid) = 0 THEN db
    ELSE [hasNets |-> TRUE, nets |-> MergeNetwork(GetNets(db), ssid, pass)]

\* The path saveNetworkToMemory takes.
SavePath(db, ssid) ==
    IF Len(ssid) = 0 THEN "noop"
    ELSE IF FindSsid(GetNets(db), ssid, 1) > 0 THEN "update"
    ELSE IF Len(GetNets(db)) >= MAX_WIFI_NETWORKS_SAVED THEN "evict"
    ELSE "append"

\* preferences.clear() on "wifi_db": every key of the namespace is removed.
ClearedDb == [hasNets |-> FALSE, nets |-> <<>>]

NoNet == [s |-> <<>>, p |-> <<>>]

(***************************************************************************)
(* Wall clock and the strings built from it.                               *)
(***************************************************************************)
\* The fields of struct tm for the clock value t (milliseconds since the
\* clock's origin, taken at 00:00:00 of the first day of a month).
TmSec(t) == (t \div 1000) % 60
TmMin(t) == (t \div 60000) % 60
TmHour(t) == (t \div 3600000) % 24
TmDay(t) == 1 + (t \div 86400000)
TmYear(valid) == IF valid THEN 2025 ELSE 1970

\* strftime(timeStr, ..., "%Y-%m-%d %H:%M:%S", &timeinfo)
Strftime(t, valid) ==
    D4(TmYear(valid)) \o <<DASH>> \o D2(1) \o <<DASH>> \o D2(TmDay(t))
        \o <<SP>> \o D2(TmHour(t)) \o <<COLON>> \o D2(TmMin(t))
        \o <<COLON>> \o D2(TmSec(t))

\* String(float(sensorValue) / 10.0): the value with two decimals.
SensorString(raw) ==
    (IF raw \div 10 >= 10 THEN D2(raw \div 10) ELSE <<Digit(raw \div 10)>>)
        \o <<DOT, Digit(raw % 10), Digit(0)>>

\* The raw register values the sensor answers with; 0 - 1 stands for a bus error.
BusError == 0 - 1
SensorReads == {BusError, 215}

(***************************************************************************)
(* Durable queue.                                                          *)
(***************************************************************************)
\* saveDataOffline: "/" + timestamp without " ", "-", ":" + ".txt"
QueueFileName(timestamp) ==
    <<SLASH>> \o Strip(Strip(Strip(timestamp, SP), DASH), COLON) \o TXT

\* file.print(timestamp); file.print(","); file.print(sensorData); file.print("\n")
QueueRecord(timestamp, sensorData) == timestamp \o <<COMMA>> \o sensorData

FileIndex(fs, name) ==
    IF \E i \in 1..Len(fs) : fs[i].name = name
    THEN CHOOSE i \in 1..Len(fs) : fs[i].name = name
    ELSE 0

InsertAt(fs, pos, f) == SubSeq(fs, 1, pos - 1) \o <<f>> \o SubSeq(fs, pos, Len(fs))

RemoveAll(fs, idxs) ==
    LET RECURSIVE Keep(_)
        Keep(i) == IF i > Len(fs) THEN <<>>
                   ELSE (IF i \in idxs THEN <<>> ELSE <<fs[i]>>) \o Keep(i + 1)
    IN Keep(1)

\* SD.open(filename, FILE_WRITE) followed by the four prints and close(): an
\* existing entry of that name is truncated and rewritten in its place, a new
\* one takes a free directory slot (pos).
WriteFile(fs, name, line, rid, pos) ==
    LET i == FileIndex(fs, name)
        f == [name |-> name, lines |-> <<line>>, rid |-> rid]
    IN IF i > 0 THEN [fs EXCEPT ![i] = f] ELSE InsertAt(fs, pos, f)

\* A plausible slip: the readiness of the card is not tested.
SaveWritesWithoutCard(ready, openOk) == openOk

\* saveDataOffline reaches its prints: the card is ready and the open succeeded.
SaveWrites(ready, openOk) == ready /\ openOk

\* The value saveDataOffline returns.
SaveResult(ready, openOk, slow) == SaveWrites(ready, openOk) /\ ~slow

\* An open for writing succeeds only while the card has a free directory slot
\* or the entry exists already.
CanOpen(fs, name) == FileIndex(fs, name) > 0 \/ Len(fs) < MaxCardFiles

(***************************************************************************)
(* Delivery pipeline.                                                      *)
(***************************************************************************)
\* What the endpoint may answer: a status (0 - 1 for a timeout) and whether the
\* body contains "true".
HttpResponses ==
    {[code |-> HTTP_OK, hasTrue |-> TRUE], [code |-> HTTP_OK, hasTrue |-> FALSE],
     [code |-> 500, hasTrue |-> FALSE], [code |-> 500, hasTrue |-> TRUE],
     [code |-> 0 - 1, hasTrue |-> FALSE]}

\* httpResponseCode == 200 && response.indexOf("true") >= 0
HttpSuccess(resp) == resp.code = HTTP_OK /\ resp.hasTrue

\* What is remembered of the last call: the reading it took, its outcome, and
\* what the drainer did with each entry it looked at.
NoCall == [op |-> "none", rid |-> 0, outcome |-> "none", openOk |-> FALSE,
           events |-> <<>>]

\* sendSensorData(), with what its surroundings answer: the register read, the
\* endpoint's response, whether the open succeeds, whether the write overruns
\* SD_OPERATION_TIMEOUT, and the directory slot a new entry takes.
sendSensorData(raw, resp, openOk, slow, pos) ==
    IF raw = BusError
    THEN /\ lastCall' = [NoCall EXCEPT !.op = "send", !.outcome = "NoData"]
         /\ UNCHANGED <<files, lastWatchdogTime, nextRid, lostRids>>
    ELSE LET sensorData == SensorString(raw)
             timeStr == Strftime(now, timeValid)
             name == QueueFileName(timeStr)
             writes == ~HttpSuccess(resp) /\ SaveWrites(sdReady, openOk)
             outcome == IF HttpSuccess(resp) THEN "Delivered"
                        ELSE IF SaveResult(sdReady, openOk, slow)
                             THEN "QueuedOffline" ELSE "Lost"
         IN /\ lastWatchdogTime' = now
            /\ files' = IF writes
                        THEN WriteFile(files, name,
                                       QueueRecord(timeStr, sensorData),
                                       nextRid, pos)
                        ELSE files
            /\ lastCall' = [op |-> "send", rid |-> nextRid,
                            outcome |-> outcome, openOk |-> openOk,
                            events |-> <<>>]
            /\ nextRid' = nextRid + 1
            /\ lostRids' = IF outcome = "Lost" /\ ~writes
                           THEN lostRids \cup {nextRid} ELSE lostRids

\* The answers of the surroundings sendSensorData can meet in the current
\* state: without an association the request cannot be answered.
SendInputs ==
    {in \in [raw : SensorReads, resp : HttpResponses, openOk : BOOLEAN,
             slow : BOOLEAN, pos : {1, Len(files) + 1}] :
        /\ in.raw # BusError => nextRid <= MaxReadings
        /\ wifiStatus # "CONNECTED" => in.resp.code < 0
        \* answers that are not consulted are left at their first value
        /\ in.raw = BusError => in.resp.code < 0
        /\ (in.raw = BusError \/ HttpSuccess(in.resp)) => ~in.openOk
        /\ ~(sdReady /\ in.openOk) => (~in.slow /\ in.pos = 1)
        /\ in.openOk =>
             CanOpen(files, QueueFileName(Strftime(now, timeValid)))}

(***************************************************************************)
(* Queue drainer.                                                          *)
(***************************************************************************)
\* file.readStringUntil('\n'): the first line, empty for an empty file.
FirstLine(f) == IF Len(f.lines) > 0 THEN f.lines[1] ELSE <<>>

\* A plausible slip: a failed upload is skipped and the batch goes on.
AfterFailedUploadContinue == "continue"

\* The else branch of the upload test: break.
AfterFailedUpload == "break"

\* What the drainer did with entry idx of the enumeration.
DrainEvent(idx, ev, rid) == [idx |-> idx, ev |-> ev, rid |-> rid]

\* What the surroundings may answer for one entry: the endpoint's response to
\* its upload, or the time budget found spent at it.
DrainAnswers ==
    {[code |-> HTTP_OK, hasTrue |-> TRUE, spent |-> FALSE],
     [code |-> HTTP_OK, hasTrue |-> FALSE, spent |-> FALSE],
     [code |-> 500, hasTrue |-> FALSE, spent |-> FALSE],
     [code |-> 0, hasTrue |-> FALSE, spent |-> TRUE]}

\* A plausible slip: an entry without a separator is kept and the batch goes on.
MalformedIsKept(content) == FALSE

\* int comma = content.indexOf(','); if (comma < 0) { SD.remove(filename); continue; }
Malformed(content) == IndexOf(content, COMMA, 1) = 0

\* The while loop of processOfflineFiles from entry i of the enumeration fs on,
\* with `processed` uploads done. script[i] is what the surroundings answer for
\* entry i: the response to its upload, or the time budget found spent at it.
\* acc collects the entries removed and what happened.
RECURSIVE DrainLoop(_, _, _, _, _)
DrainLoop(fs, i, processed, script, acc) ==
    IF ~(processed < MAX_FILES) \/ i > Len(fs) THEN acc
    ELSE IF script[i].spent
    THEN [acc EXCEPT !.events = Append(@, DrainEvent(i, "timeout", fs[i].rid))]
    ELSE IF ~EndsWith(fs[i].name, TXT)
    THEN DrainLoop(fs, i + 1, processed, script,
                   [acc EXCEPT !.events = Append(@, DrainEvent(i, "other", fs[i].rid))])
    ELSE LET content == FirstLine(fs[i])
             comma == IndexOf(content, COMMA, 1)
             ts == SubSeq(content, 1, comma - 1)
             val == SubSeq(content, comma + 1, Len(content))
         IN IF Malformed(content)
            THEN DrainLoop(fs, i + 1, processed, script,
                           [removed |-> acc.removed \cup {i},
                            events |-> Append(acc.events,
                                DrainEvent(i, "malformed", fs[i].rid))])
            ELSE IF HttpSuccess(script[i])
            THEN DrainLoop(fs, i + 1, processed + 1, script,
                           [removed |-> acc.removed \cup {i},
                            events |-> Append(acc.events,
                                DrainEvent(i, "uploaded", fs[i].rid))])
            ELSE LET failed == [acc EXCEPT !.events =
                                    Append(@, DrainEvent(i, "failed", fs[i].rid))]
                 IN IF AfterFailedUpload = "break"
                    THEN failed
                    ELSE DrainLoop(fs, i + 1, processed, script, failed)

Uploaded == [code |-> HTTP_OK, hasTrue |-> TRUE, spent |-> FALSE]

\* The scripts one invocation can meet: every answer is a success, or all are
\* but the one for entry k.
DrainScripts(fs) ==
    {[i \in 1..Len(fs) |-> Uploaded]}
        \cup {[i \in 1..Len(fs) |-> IF i = k THEN a ELSE Uploaded] :
                 k \in 1..Len(fs), a \in DrainAnswers \ {Uploaded}}

\* What the surroundings answer to one invocation: the root directory does
\* not open, or it does and the uploads follow a script.
DrainInputs(fs) ==
    {[rootOk |-> FALSE, script |-> [i \in 1..Len(fs) |-> Uploaded]]}
        \cup {[rootOk |-> TRUE, script |-> s] : s \in DrainScripts(fs)}

\* processOfflineFiles(), with what its surroundings answer: whether the root
\* directory opens, and the script of the uploads.
processOfflineFiles(rootOk, script) ==
    IF ~sdReady \/ wifiStatus # "CONNECTED" \/ ~rootOk
    THEN /\ lastCall' = [NoCall EXCEPT !.op = "drain", !.outcome = "skipped"]
         /\ UNCHANGED files
    ELSE LET run == DrainLoop(files, 1, 0, script,
                              [removed |-> {}, events |-> <<>>])
         IN /\ files' = RemoveAll(files, run.removed)
            /\ lastCall' = [NoCall EXCEPT !.op = "drain", !.outcome = "ran",
                                          !.events = run.events]

(***************************************************************************)
(* Radio.                                                                  *)
(***************************************************************************)
\* The association the radio is driving completes.
RadioUp ==
    /\ UNCHANGED reqVars
    /\ wifiCfg # NoNet
    /\ wifiStatus = "DISCONNECTED"
    /\ wifiStatus' = "CONNECTED"
    /\ UNCHANGED <<wifiCfg, storeVars, confVars, sdVars, flagVars, timeVars,
                   taskVars, seenVars>>

\* The association is lost.
RadioDown ==
    /\ UNCHANGED reqVars
    /\ wifiStatus = "CONNECTED"
    /\ wifiStatus' = "DISCONNECTED"
    /\ UNCHANGED <<wifiCfg, storeVars, confVars, sdVars, flagVars, timeVars,
                   taskVars, seenVars>>

(***************************************************************************)
(* Configuration store.                                                    *)
(***************************************************************************)
\* A plausible slip: the upper end of the range is not tested.
validateIntervalNoUpper(interval) == interval >= MIN_UPDATE_INTERVAL

validateInterval(interval) ==
    interval >= MIN_UPDATE_INTERVAL /\ interval <= MAX_UPDATE_INTERVAL

\* A plausible slip: the lower end of the range is not tested.
validateSetpointNoLower(value) == value <= 9999

\* Setpoints are kept in whole units; MIN_SETPOINT and MAX_SETPOINT are
\* -9999.0 and 9999.0.
validateSetpoint(value) == value >= 0 - 9999 /\ value <= 9999

\* The record saveConfig() serializes.
ConfigDoc(name, id, url, ntp, int, mode, sp1, sp2) ==
    [name |-> name, id |-> id, url |-> url, ntp |-> ntp, int |-> int,
     mode |-> mode, sp1 |-> sp1, sp2 |-> sp2]

(***************************************************************************)
(* Control-channel callbacks.                                              *)
(***************************************************************************)
ConfigKeys == {"name", "id", "url", "ntp", "int", "mode", "sp1", "sp2"}

\* An inbound message: the bytes are empty, are not JSON, or are a JSON
\* object with the fields named in keys.
Msg(wire, keys) ==
    [wire |-> wire, keys |-> keys, action |-> "", name |-> <<>>, id |-> <<>>,
     url |-> <<>>, ntp |-> <<>>, int |-> 0, mode |-> 0, sp1 |-> 0, sp2 |-> 0,
     ssid |-> <<>>, pass |-> <<>>]

ActionMsg(act) == [Msg("json", {"action"}) EXCEPT !.action = act]

\* const char* act = doc["action"] is a null pointer when the value of the
\* field is not a string.
NullPtr == "nullptr"
ProvisionMsg(ssid, pass) ==
    [Msg("json", {"ssid", "pass"}) EXCEPT !.ssid = ssid, !.pass = pass]
IntervalMsg(int) == [Msg("json", {"int"}) EXCEPT !.int = int]
ModeMsg(mode) == [Msg("json", {"mode"}) EXCEPT !.mode = mode]

NoWrite == [notes |-> <<>>, bus |-> <<>>, saved |-> FALSE, radio |-> <<>>]

\* MyServerCallbacks::onConnect
onConnect ==
    /\ ~restarting
    /\ ~deviceConnected
    /\ deviceConnected' = TRUE
    /\ lastWatchdogTime' = now
    /\ lastInbound' = now
    /\ UNCHANGED <<owedFires, arrivals, lastFire>>
    /\ UNCHANGED <<triggerWifiScan, wifiConfigReceived, watchdogPaused,
                   forceHttpNow, targetSSID, targetPass>>
    /\ UNCHANGED <<now, timeValid, sntpStarted, lastFileCheckTime, lastHttpTime,
                   lastWifiCheck, lastClockMinute>>
    /\ UNCHANGED <<storeVars, confVars, sdVars, radioVars, taskVars, seenVars>>

\* MyServerCallbacks::onDisconnect
onDisconnect ==
    /\ UNCHANGED reqVars
    /\ ~restarting
    /\ deviceConnected
    /\ deviceConnected' = FALSE
    /\ sessionKill' = FALSE
    /\ UNCHANGED <<triggerWifiScan, wifiConfigReceived, watchdogPaused,
                   forceHttpNow, targetSSID, targetPass>>
    /\ UNCHANGED <<credOp, autoRun, provRun, schedRun, lastCall, nextRid,
                   lostRids, lastWrite>>
    /\ UNCHANGED <<storeVars, confVars, sdVars, radioVars, timeVars, taskVars>>

\* safeNotify(message) from a callback: sent only while the session is up.
Notify(notes, message) ==
    IF deviceConnected THEN Append(notes, message) ELSE notes

\* clearSavedWifi(): preferences.clear() on "wifi_db" and WiFi.disconnect(true, true).
clearSavedWifi ==
    /\ wifi_db' = ClearedDb
    /\ wifiStatus' = "DISCONNECTED"
    /\ wifiCfg' = NoNet

\* onWrite, action "forget_wifi": clearSavedWifi(), the notification, and
\* WiFi.disconnect().
OnForgetWifi ==
    /\ clearSavedWifi
    /\ lastWrite' = [NoWrite EXCEPT
                         !.notes = Notify(<<>>, "Wi-Fi credentials erased."),
                         !.radio = <<"disconnect(true, true)", "disconnect">>]
    /\ lastWatchdogTime' = now
    /\ lastInbound' = now
    /\ UNCHANGED <<owedFires, arrivals, lastFire>>
    /\ UNCHANGED <<app_conf, confVars, sdVars, flagVars, taskVars>>
    /\ UNCHANGED <<now, timeValid, sntpStarted, lastFileCheckTime, lastHttpTime,
                   lastWifiCheck, lastClockMinute>>
    /\ UNCHANGED <<credOp, autoRun, provRun, schedRun, lastCall, nextRid,
                   lostRids, sessionKill>>

\* onWrite, the other actions: "scan" sets the request flag; "get_conf" and
\* "get_status" answer; "ping" and an unknown name do nothing more.
OnAction(m) ==
    /\ m.action = "scan" => Len(arrivals) < MaxPending
    /\ triggerWifiScan' = (triggerWifiScan \/ m.action = "scan")
    /\ arrivals' = IF m.action = "scan"
                   THEN Append(arrivals, [kind |-> "scan", cred |-> NoNet])
                   ELSE arrivals
    /\ lastInbound' = now
    /\ UNCHANGED <<owedFires, lastFire>>
    /\ lastWrite' = [NoWrite EXCEPT !.notes =
                         IF m.action = "get_conf" THEN Notify(<<>>, "conf")
                         ELSE IF m.action = "get_status"
                         THEN Notify(<<>>, IF wifiStatus = "CONNECTED"
                                           THEN "Connected!"
                                           ELSE "Status: Not Connected")
                         ELSE <<>>]
    /\ lastWatchdogTime' = now
    /\ UNCHANGED <<deviceConnected, wifiConfigReceived, watchdogPaused,
                   forceHttpNow, targetSSID, targetPass>>
    /\ UNCHANGED <<now, timeValid, sntpStarted, lastFileCheckTime, lastHttpTime,
                   lastWifiCheck, lastClockMinute>>
    /\ UNCHANGED <<credOp, autoRun, provRun, schedRun, lastCall, nextRid,
                   lostRids, sessionKill>>
    /\ UNCHANGED <<storeVars, confVars, sdVars, radioVars, taskVars>>

\* onWrite, a configuration patch: each field present is validated and
\* applied on its own; a change is saved, sets forceHttpNow and is confirmed;
\* a name in the patch restarts the device.
OnConfigPatch(m) ==
    LET has(k) == k \in m.keys
        intOk == has("int") /\ validateInterval(m.int)
        modeOk == has("mode") /\ m.mode \in {0, 1}
        sp1Ok == has("sp1") /\ validateSetpoint(m.sp1)
        sp2Ok == has("sp2") /\ validateSetpoint(m.sp2)
        nameChanged == has("name")
        changed == \/ has("name") \/ has("id") \/ has("url") \/ has("ntp")
                   \/ intOk \/ modeOk \/ sp1Ok \/ sp2Ok
        n1 == IF has("int") /\ ~intOk
              THEN Notify(<<>>, "Error: Invalid interval (1-86400)") ELSE <<>>
        n2 == IF has("sp1") /\ ~sp1Ok
              THEN Notify(n1, "Error: Invalid setpoint 1") ELSE n1
        n3 == IF has("sp2") /\ ~sp2Ok
              THEN Notify(n2, "Error: Invalid setpoint 2") ELSE n2
        n4 == IF changed
              THEN Notify(n3, IF nameChanged THEN "Name Saved. Restarting..."
                              ELSE "Settings Saved.")
              ELSE n3
        bus == (IF sp1Ok THEN <<"SET_POINT_1">> ELSE <<>>)
                   \o (IF sp2Ok THEN <<"SET_POINT_2">> ELSE <<>>)
    IN /\ changed => owedFires < MaxOwed
       /\ DEVICE_NICKNAME' = IF has("name") THEN m.name ELSE DEVICE_NICKNAME
       /\ DEVICE_ID' = IF has("id") THEN m.id ELSE DEVICE_ID
       /\ API_URL' = IF has("url") THEN m.url ELSE API_URL
       /\ NTP_SERVER' = IF has("ntp") THEN m.ntp ELSE NTP_SERVER
       /\ UPDATE_INTERVAL' = IF intOk THEN m.int ELSE UPDATE_INTERVAL
       /\ UPDATE_MODE' = IF modeOk THEN m.mode ELSE UPDATE_MODE
       /\ setPoint1' = IF sp1Ok THEN m.sp1 ELSE setPoint1
       /\ setPoint2' = IF sp2Ok THEN m.sp2 ELSE setPoint2
       /\ app_conf' = IF changed
                      THEN [hasData |-> TRUE,
                            data |-> ConfigDoc(DEVICE_NICKNAME', DEVICE_ID',
                                               API_URL', NTP_SERVER',
                                               UPDATE_INTERVAL', UPDATE_MODE',
                                               setPoint1', setPoint2')]
                      ELSE app_conf
       /\ forceHttpNow' = (forceHttpNow \/ changed)
       /\ owedFires' = IF changed THEN owedFires + 1 ELSE owedFires
       /\ lastInbound' = now
       /\ UNCHANGED <<arrivals, lastFire>>
       /\ restarting' = (changed /\ nameChanged)
       /\ lastWrite' = [notes |-> n4, bus |-> bus, saved |-> changed,
                         radio |-> <<>>]
       /\ lastWatchdogTime' = now
       /\ UNCHANGED <<deviceConnected, triggerWifiScan, wifiConfigReceived,
                      watchdogPaused, targetSSID, targetPass>>
       /\ UNCHANGED <<now, timeValid, sntpStarted, lastFileCheckTime, lastHttpTime,
                      lastWifiCheck, lastClockMinute>>
       /\ UNCHANGED <<pc, shouldTrigger, attempts, savedNets, netIdx, autoFrom>>
       /\ UNCHANGED <<credOp, autoRun, provRun, schedRun, lastCall, nextRid,
                      lostRids, sessionKill>>
       /\ UNCHANGED <<wifi_db, sdVars, radioVars>>

\* onWrite, a provisioning request: the target credentials are overwritten
\* and trimmed; a non-empty ssid sets the request flag.
OnProvision(m) ==
    /\ Len(Trim(m.ssid)) > 0 => Len(arrivals) < MaxPending
    /\ targetSSID' = Trim(m.ssid)
    /\ targetPass' = IF "pass" \in m.keys THEN Trim(m.pass) ELSE <<>>
    /\ wifiConfigReceived' = (wifiConfigReceived \/ Len(targetSSID') > 0)
    /\ arrivals' = IF Len(targetSSID') > 0
                   THEN Append(arrivals,
                               [kind |-> "prov",
                                cred |-> [s |-> targetSSID', p |-> targetPass']])
                   ELSE arrivals
    /\ lastInbound' = now
    /\ UNCHANGED <<owedFires, lastFire>>
    /\ lastWrite' = NoWrite
    /\ lastWatchdogTime' = now
    /\ UNCHANGED <<deviceConnected, triggerWifiScan, watchdogPaused,
                   forceHttpNow>>
    /\ UNCHANGED <<now, timeValid, sntpStarted, lastFileCheckTime, lastHttpTime,
                   lastWifiCheck, lastClockMinute>>
    /\ UNCHANGED <<credOp, autoRun, provRun, schedRun, lastCall, nextRid,
                   lostRids, sessionKill>>
    /\ UNCHANGED <<storeVars, confVars, sdVars, radioVars, taskVars>>

\* onWrite with nothing to dispatch: only the activity timestamp moves, and
\* not even that for an empty value.
OnIgnored(m) ==
    /\ lastWatchdogTime' = IF m.wire = "empty" THEN lastWatchdogTime ELSE now
    /\ lastInbound' = now
    /\ UNCHANGED <<owedFires, arrivals, lastFire>>
    /\ lastWrite' = NoWrite
    /\ UNCHANGED <<now, timeValid, sntpStarted, lastFileCheckTime, lastHttpTime,
                   lastWifiCheck, lastClockMinute>>
    /\ UNCHANGED <<credOp, autoRun, provRun, schedRun, lastCall, nextRid,
                   lostRids, sessionKill>>
    /\ UNCHANGED <<storeVars, confVars, sdVars, radioVars, flagVars, taskVars>>

\* onWrite, an action that is not a string: strcmp(act, "scan") reads through
\* a null pointer, which is undefined. The build either faults on the read
\* (the panic handler restarts the chip) or the comparisons all fail.
OnNullAction ==
    /\ \E fault \in BOOLEAN : restarting' = fault
    /\ lastWatchdogTime' = now
    /\ lastInbound' = now
    /\ UNCHANGED <<owedFires, arrivals, lastFire>>
    /\ lastWrite' = NoWrite
    /\ UNCHANGED <<now, timeValid, sntpStarted, lastFileCheckTime, lastHttpTime,
                   lastWifiCheck, lastClockMinute>>
    /\ UNCHANGED <<pc, shouldTrigger, attempts, savedNets, netIdx, autoFrom>>
    /\ UNCHANGED <<credOp, autoRun, provRun, schedRun, lastCall, nextRid,
                   lostRids, sessionKill>>
    /\ UNCHANGED <<storeVars, confVars, sdVars, radioVars, flagVars>>

\* MyCallbacks::onWrite(m)
onWrite(m) ==
    /\ ~restarting
    /\ deviceConnected
    /\ IF m.wire # "json" THEN OnIgnored(m)
       ELSE IF "action" \in m.keys
       THEN (IF m.action = NullPtr THEN OnNullAction
             ELSE IF m.action = "forget_wifi" THEN OnForgetWifi
             ELSE OnAction(m))
       ELSE IF m.keys \cap ConfigKeys # {} THEN OnConfigPatch(m)
       ELSE IF "ssid" \in m.keys THEN OnProvision(m)
       ELSE OnIgnored(m)

(***************************************************************************)
(* Connectivity manager: tryAutoConnect(), one step per statement that     *)
(* reads or writes state another context can touch.                        *)
(***************************************************************************)
NoAutoRun == [snap |-> <<>>, begun |-> <<>>, result |-> "none"]
NoProvRun == [req |-> NoNet, result |-> "none"]
NoSchedRun == [seen |-> 0 - 1, fired |-> FALSE, first |-> FALSE, minute |-> 0 - 1]

\* Where tryAutoConnect returns to: setup() goes on to loop(), loop() to its
\* delay. Its locals end with the call.
AutoReturn == IF autoFrom = "setup" THEN "watchdog" ELSE "delay"

\* A plausible slip: the loop goes on to the next entry after a success.
AutoStopsOnNever(status) == FALSE

\* if (WiFi.status() == WL_CONNECTED) return true;
AutoStopsOn(status) == status = "CONNECTED"

\* Preferences read and the test for "[]".
AcLoad ==
    /\ UNCHANGED reqVars
    /\ pc = "ac_load"
    /\ LET savedData == GetNets(wifi_db) IN
       IF savedData = <<>>
       THEN /\ autoRun' = [snap |-> <<>>, begun |-> <<>>, result |-> "false"]
            /\ pc' = AutoReturn
            /\ autoFrom' = "none"
            /\ UNCHANGED <<savedNets, netIdx>>
       ELSE /\ autoRun' = [snap |-> savedData, begun |-> <<>>,
                           result |-> "running"]
            /\ savedNets' = savedData
            /\ netIdx' = 1
            /\ pc' = "ac_begin"
            /\ UNCHANGED autoFrom
    /\ UNCHANGED <<shouldTrigger, attempts, restarting>>
    /\ UNCHANGED <<credOp, provRun, schedRun, lastCall, nextRid, lostRids,
                   sessionKill, lastWrite>>
    /\ UNCHANGED <<storeVars, confVars, sdVars, radioVars, flagVars, timeVars>>

\* The head of the for loop: WiFi.disconnect(); WiFi.begin(ssid, pass).
AcBegin ==
    /\ UNCHANGED reqVars
    /\ pc = "ac_begin"
    /\ IF netIdx > Len(savedNets)
       THEN /\ autoRun' = [autoRun EXCEPT !.result = "false"]
            /\ pc' = AutoReturn
            /\ savedNets' = <<>>
            /\ netIdx' = 0
            /\ autoFrom' = "none"
            /\ UNCHANGED <<radioVars, attempts>>
       ELSE /\ wifiStatus' = "DISCONNECTED"
            /\ wifiCfg' = savedNets[netIdx]
            /\ attempts' = 0
            /\ UNCHANGED <<savedNets, netIdx, autoFrom>>
            /\ autoRun' = [autoRun EXCEPT !.begun =
                               Append(@, [idx |-> netIdx,
                                          cred |-> savedNets[netIdx],
                                          connected |-> FALSE])]
            /\ pc' = "ac_poll"
    /\ UNCHANGED <<shouldTrigger, restarting>>
    /\ UNCHANGED <<credOp, provRun, schedRun, lastCall, nextRid, lostRids,
                   sessionKill, lastWrite>>
    /\ UNCHANGED <<storeVars, confVars, sdVars, flagVars, timeVars>>

\* while (WiFi.status() != WL_CONNECTED && attempts < 8) { delay(500); attempts++; }
AcPoll ==
    /\ UNCHANGED reqVars
    /\ pc = "ac_poll"
    /\ IF wifiStatus # "CONNECTED" /\ attempts < AUTO_CONNECT_ATTEMPTS
       THEN /\ attempts' = attempts + 1
            /\ pc' = pc
       ELSE /\ pc' = "ac_check"
            /\ UNCHANGED attempts
    /\ UNCHANGED <<shouldTrigger, savedNets, netIdx, autoFrom, restarting>>
    /\ UNCHANGED seenVars
    /\ UNCHANGED <<storeVars, confVars, sdVars, radioVars, flagVars, timeVars>>

\* The test after the wait: return true (setup() then calls setupTime()), or go
\* on to the next entry.
AcCheck ==
    /\ UNCHANGED reqVars
    /\ pc = "ac_check"
    /\ LET seen == [autoRun EXCEPT !.begun[Len(autoRun.begun)].connected =
                                       (wifiStatus = "CONNECTED")]
       IN IF AutoStopsOn(wifiStatus)
          THEN /\ autoRun' = [seen EXCEPT !.result = "true"]
               /\ sntpStarted' = (sntpStarted \/ autoFrom = "setup")
               /\ pc' = AutoReturn
               /\ savedNets' = <<>>
               /\ netIdx' = 0
               /\ attempts' = 0
               /\ autoFrom' = "none"
          ELSE /\ autoRun' = seen
               /\ netIdx' = netIdx + 1
               /\ pc' = "ac_begin"
               /\ UNCHANGED <<sntpStarted, savedNets, attempts, autoFrom>>
    /\ UNCHANGED <<now, timeValid, lastFileCheckTime, lastHttpTime,
                   lastWatchdogTime, lastWifiCheck, lastClockMinute>>
    /\ UNCHANGED <<shouldTrigger, restarting>>
    /\ UNCHANGED <<credOp, provRun, schedRun, lastCall, nextRid, lostRids,
                   sessionKill, lastWrite>>
    /\ UNCHANGED <<storeVars, confVars, sdVars, radioVars, flagVars>>

\* setup(), from its call of tryAutoConnect() on.
SetupAuto ==
    /\ UNCHANGED reqVars
    /\ pc = "setup_auto"
    /\ pc' = "ac_load"
    /\ autoFrom' = "setup"
    /\ UNCHANGED <<shouldTrigger, attempts, savedNets, netIdx, restarting>>
    /\ UNCHANGED <<storeVars, confVars, sdVars, radioVars, flagVars, timeVars,
                   seenVars>>

(***************************************************************************)
(* loop(), one step per section, and one per statement where another       *)
(* context can act in between.                                             *)
(***************************************************************************)
\* 1. Watchdog.
LoopWatchdog ==
    /\ UNCHANGED reqVars
    /\ pc = "watchdog"
    /\ sessionKill' = (sessionKill \/
                         (/\ deviceConnected
                          /\ ~watchdogPaused
                          /\ now - lastWatchdogTime > WATCHDOG_TIMEOUT))
    /\ autoRun' = NoAutoRun
    /\ provRun' = NoProvRun
    /\ pc' = "drain"
    /\ UNCHANGED <<shouldTrigger, attempts, savedNets, netIdx, autoFrom,
                   restarting>>
    /\ UNCHANGED <<credOp, schedRun, lastCall, nextRid, lostRids, lastWrite>>
    /\ UNCHANGED <<storeVars, confVars, sdVars, radioVars, flagVars, timeVars>>

\* 2. Process offline files: the test and the bookkeeping before the call.
LoopDrain ==
    /\ UNCHANGED reqVars
    /\ pc = "drain"
    /\ IF wifiStatus = "CONNECTED"
          /\ now - lastFileCheckTime > FILE_CHECK_INTERVAL
       THEN /\ lastFileCheckTime' = now
            /\ watchdogPaused' = TRUE
            /\ pc' = "drain_run"
       ELSE /\ pc' = "sched"
            /\ UNCHANGED <<lastFileCheckTime, watchdogPaused>>
    /\ UNCHANGED <<deviceConnected, triggerWifiScan, wifiConfigReceived,
                   forceHttpNow, targetSSID, targetPass>>
    /\ UNCHANGED <<now, timeValid, sntpStarted, lastHttpTime, lastWatchdogTime,
                   lastWifiCheck, lastClockMinute>>
    /\ UNCHANGED <<shouldTrigger, attempts, savedNets, netIdx, autoFrom,
                   restarting>>
    /\ UNCHANGED <<storeVars, confVars, sdVars, radioVars, seenVars>>

LoopDrainRun ==
    /\ UNCHANGED reqVars
    /\ pc = "drain_run"
    /\ \E in \in DrainInputs(files) :
           processOfflineFiles(in.rootOk, in.script)
    /\ pc' = "drain_end"
    /\ UNCHANGED <<shouldTrigger, attempts, savedNets, netIdx, autoFrom,
                   restarting>>
    /\ UNCHANGED <<credOp, autoRun, provRun, schedRun, nextRid, lostRids,
                   sessionKill, lastWrite>>
    /\ UNCHANGED <<storeVars, confVars, sdReady, radioVars, flagVars, timeVars>>

LoopDrainEnd ==
    /\ UNCHANGED reqVars
    /\ pc = "drain_end"
    /\ watchdogPaused' = FALSE
    /\ lastWatchdogTime' = now
    /\ pc' = "sched"
    /\ UNCHANGED <<deviceConnected, triggerWifiScan, wifiConfigReceived,
                   forceHttpNow, targetSSID, targetPass>>
    /\ UNCHANGED <<now, timeValid, sntpStarted, lastFileCheckTime, lastHttpTime,
                   lastWifiCheck, lastClockMinute>>
    /\ UNCHANGED <<shouldTrigger, attempts, savedNets, netIdx, autoFrom,
                   restarting>>
    /\ UNCHANGED <<storeVars, confVars, sdVars, radioVars, seenVars>>

\* int minInterval = UPDATE_INTERVAL / 60; if (minInterval < 1) minInterval = 1;
MinInterval(interval) == Max(1, interval \div 60)

\* timeinfo.tm_min % minInterval == 0 && timeinfo.tm_min != lastClockMinute
ClockDue(minute, minInterval, last) ==
    minute % minInterval = 0 /\ minute # last

\* 3. Sensor data logic: the decision of the configured mode.
LoopSched ==
    /\ UNCHANGED reqVars
    /\ pc = "sched"
    /\ IF UPDATE_MODE = 0
       THEN /\ IF now - lastHttpTime > UPDATE_INTERVAL * 1000
               THEN shouldTrigger' = TRUE /\ lastHttpTime' = now
               ELSE shouldTrigger' = FALSE /\ UNCHANGED lastHttpTime
            /\ UNCHANGED <<lastClockMinute, schedRun>>
       ELSE IF UPDATE_MODE = 1 /\ timeValid
       THEN LET minute == TmMin(now)
                minInterval == MinInterval(UPDATE_INTERVAL)
                due == ClockDue(minute, minInterval, lastClockMinute)
            IN /\ shouldTrigger' = due
               /\ lastClockMinute' = IF due THEN minute ELSE lastClockMinute
               /\ schedRun' =
                    IF minute % minInterval = 0
                    THEN [seen |-> now \div 60000, fired |-> due,
                          first |-> schedRun.seen # now \div 60000,
                          minute |-> minute]
                    ELSE [schedRun EXCEPT !.fired = FALSE, !.first = FALSE]
               /\ UNCHANGED lastHttpTime
       ELSE /\ shouldTrigger' = FALSE
            /\ UNCHANGED <<lastHttpTime, lastClockMinute, schedRun>>
    /\ pc' = "force"
    /\ UNCHANGED <<now, timeValid, sntpStarted, lastFileCheckTime, lastWatchdogTime,
                   lastWifiCheck>>
    /\ UNCHANGED <<attempts, savedNets, netIdx, autoFrom, restarting>>
    /\ UNCHANGED <<credOp, autoRun, provRun, lastCall, nextRid, lostRids,
                   sessionKill, lastWrite>>
    /\ UNCHANGED <<storeVars, confVars, sdVars, radioVars, flagVars>>

\* if (forceHttpNow) { shouldTrigger = true; forceHttpNow = false; }
LoopForce ==
    /\ pc = "force"
    /\ shouldTrigger' = (shouldTrigger \/ forceHttpNow)
    /\ forceHttpNow' = FALSE
    /\ owedFires' = IF forceHttpNow /\ ~shouldTrigger /\ owedFires > 0
                    THEN owedFires - 1 ELSE owedFires
    /\ UNCHANGED <<lastInbound, arrivals, lastFire>>
    /\ pc' = "send"
    /\ UNCHANGED <<deviceConnected, triggerWifiScan, wifiConfigReceived,
                   watchdogPaused, targetSSID, targetPass>>
    /\ UNCHANGED <<attempts, savedNets, netIdx, autoFrom, restarting>>
    /\ UNCHANGED <<storeVars, confVars, sdVars, radioVars, timeVars, seenVars>>

\* if (shouldTrigger) sendSensorData(); the local is not read again.
LoopSend ==
    /\ pc = "send"
    /\ lastFire' = IF shouldTrigger THEN now ELSE lastFire
    /\ UNCHANGED <<owedFires, lastInbound, arrivals>>
    /\ IF shouldTrigger
       THEN \E in \in SendInputs :
                sendSensorData(in.raw, in.resp, in.openOk, in.slow, in.pos)
       ELSE UNCHANGED <<files, lastWatchdogTime, lastCall, nextRid, lostRids>>
    /\ shouldTrigger' = FALSE
    /\ pc' = "scan"
    /\ UNCHANGED <<now, timeValid, sntpStarted, lastFileCheckTime, lastHttpTime,
                   lastWifiCheck, lastClockMinute>>
    /\ UNCHANGED <<attempts, savedNets, netIdx, autoFrom, restarting>>
    /\ UNCHANGED <<credOp, autoRun, provRun, schedRun, sessionKill, lastWrite>>
    /\ UNCHANGED <<storeVars, confVars, sdReady, radioVars, flagVars>>

\* 4. WiFi scan request: the flag, the pause and WiFi.disconnect().
LoopScan ==
    /\ pc = "scan"
    /\ IF triggerWifiScan
       THEN /\ triggerWifiScan' = FALSE
            /\ watchdogPaused' = TRUE
            /\ wifiStatus' = "DISCONNECTED"
            /\ wifiCfg' = NoNet
            /\ arrivals' = SelectSeq(arrivals, LAMBDA r : r.kind # "scan")
            /\ pc' = "scan_run"
       ELSE /\ pc' = "prov"
            /\ UNCHANGED <<triggerWifiScan, watchdogPaused, radioVars,
                           arrivals>>
    /\ UNCHANGED <<owedFires, lastInbound, lastFire>>
    /\ UNCHANGED <<deviceConnected, wifiConfigReceived, forceHttpNow,
                   targetSSID, targetPass>>
    /\ UNCHANGED <<shouldTrigger, attempts, savedNets, netIdx, autoFrom,
                   restarting>>
    /\ UNCHANGED <<storeVars, confVars, sdVars, timeVars, seenVars>>

\* WiFi.scanNetworks(), the answer, and the bookkeeping after it.
LoopScanRun ==
    /\ UNCHANGED reqVars
    /\ pc = "scan_run"
    /\ watchdogPaused' = FALSE
    /\ lastWatchdogTime' = now
    /\ pc' = "prov"
    /\ UNCHANGED <<deviceConnected, triggerWifiScan, wifiConfigReceived,
                   forceHttpNow, targetSSID, targetPass>>
    /\ UNCHANGED <<now, timeValid, sntpStarted, lastFileCheckTime, lastHttpTime,
                   lastWifiCheck, lastClockMinute>>
    /\ UNCHANGED <<shouldTrigger, attempts, savedNets, netIdx, autoFrom,
                   restarting>>
    /\ UNCHANGED <<storeVars, confVars, sdVars, radioVars, seenVars>>

\* 5. WiFi connection request: the flag, the pause, WiFi.disconnect() and
\* WiFi.begin(targetSSID, targetPass).
LoopProv ==
    /\ pc = "prov"
    /\ IF wifiConfigReceived
       THEN /\ wifiConfigReceived' = FALSE
            /\ watchdogPaused' = TRUE
            /\ wifiStatus' = "DISCONNECTED"
            /\ wifiCfg' = [s |-> targetSSID, p |-> targetPass]
            /\ attempts' = 0
            /\ provRun' = [req |-> [s |-> targetSSID, p |-> targetPass],
                           result |-> "running"]
            /\ arrivals' = SelectSeq(arrivals, LAMBDA r : r.kind # "prov")
            /\ pc' = "prov_poll"
       ELSE /\ pc' = "auto"
            /\ UNCHANGED <<wifiConfigReceived, watchdogPaused, radioVars,
                           attempts, provRun, arrivals>>
    /\ UNCHANGED <<owedFires, lastInbound, lastFire>>
    /\ UNCHANGED <<deviceConnected, triggerWifiScan, forceHttpNow,
                   targetSSID, targetPass>>
    /\ UNCHANGED <<shouldTrigger, savedNets, netIdx, autoFrom, restarting>>
    /\ UNCHANGED <<credOp, autoRun, schedRun, lastCall, nextRid, lostRids,
                   sessionKill, lastWrite>>
    /\ UNCHANGED <<storeVars, confVars, sdVars, timeVars>>

\* while (WiFi.status() != WL_CONNECTED && attempts < WIFI_CONNECT_ATTEMPTS)
LoopProvPoll ==
    /\ UNCHANGED reqVars
    /\ pc = "prov_poll"
    /\ IF wifiStatus # "CONNECTED" /\ attempts < WIFI_CONNECT_ATTEMPTS
       THEN attempts' = attempts + 1 /\ pc' = pc
       ELSE pc' = "prov_done" /\ UNCHANGED attempts
    /\ UNCHANGED <<shouldTrigger, savedNets, netIdx, autoFrom, restarting>>
    /\ UNCHANGED <<storeVars, confVars, sdVars, radioVars, flagVars, timeVars,
                   seenVars>>

\* if (WiFi.status() == WL_CONNECTED) { ... saveNetworkToMemory(...) ... }
ProvSaves(status) == status = "CONNECTED"

\* The test after the wait, with both branches and the bookkeeping after them.
LoopProvDone ==
    /\ UNCHANGED reqVars
    /\ pc = "prov_done"
    /\ IF ProvSaves(wifiStatus)
       THEN /\ wifi_db' = saveNetworkToMemory(wifi_db, targetSSID, targetPass)
            /\ sntpStarted' = TRUE
            /\ forceHttpNow' = TRUE
            /\ provRun' = [provRun EXCEPT !.result = "connected"]
       ELSE /\ provRun' = [provRun EXCEPT !.result = "failed"]
            /\ UNCHANGED <<wifi_db, forceHttpNow, sntpStarted>>
    /\ watchdogPaused' = FALSE
    /\ lastWatchdogTime' = now
    /\ attempts' = 0
    /\ pc' = "auto"
    /\ UNCHANGED <<deviceConnected, triggerWifiScan, wifiConfigReceived,
                   targetSSID, targetPass>>
    /\ UNCHANGED <<now, timeValid, lastFileCheckTime, lastHttpTime,
                   lastWifiCheck, lastClockMinute>>
    /\ UNCHANGED <<shouldTrigger, savedNets, netIdx, autoFrom, restarting>>
    /\ UNCHANGED <<credOp, autoRun, schedRun, lastCall, nextRid, lostRids,
                   sessionKill, lastWrite>>
    /\ UNCHANGED <<app_conf, confVars, sdVars, radioVars>>

\* WiFi.status() != WL_CONNECTED && !deviceConnected &&
\* (millis() - lastWifiCheck > WIFI_RECONNECT_INTERVAL)
ReconnectDue(status, connected, elapsed) ==
    status # "CONNECTED" /\ ~connected /\ elapsed > WIFI_RECONNECT_INTERVAL

\* 6. Auto-reconnect (background).
LoopAuto ==
    /\ UNCHANGED reqVars
    /\ pc = "auto"
    /\ IF ReconnectDue(wifiStatus, deviceConnected, now - lastWifiCheck)
       THEN /\ lastWifiCheck' = now
            /\ autoFrom' = "loop"
            /\ pc' = "ac_load"
       ELSE /\ pc' = "delay"
            /\ UNCHANGED <<lastWifiCheck, autoFrom>>
    /\ UNCHANGED <<now, timeValid, sntpStarted, lastFileCheckTime, lastHttpTime,
                   lastWatchdogTime, lastClockMinute>>
    /\ UNCHANGED <<shouldTrigger, attempts, savedNets, netIdx, restarting>>
    /\ UNCHANGED <<storeVars, confVars, sdVars, radioVars, flagVars, seenVars>>

\* delay(10) and the return of loop().
LoopDelay ==
    /\ UNCHANGED reqVars
    /\ pc = "delay"
    /\ pc' = "watchdog"
    /\ UNCHANGED <<shouldTrigger, attempts, savedNets, netIdx, autoFrom,
                   restarting>>
    /\ UNCHANGED <<storeVars, confVars, sdVars, radioVars, flagVars, timeVars,
                   seenVars>>

(***************************************************************************)
(* Time.                                                                   *)
(***************************************************************************)
\* d milliseconds pass, within the run time explored.
Elapse(d, limit) ==
    /\ UNCHANGED reqVars
    /\ now + d <= limit
    /\ now' = now + d
    /\ UNCHANGED <<timeValid, sntpStarted, lastFileCheckTime, lastHttpTime,
                   lastWatchdogTime, lastWifiCheck, lastClockMinute>>
    /\ UNCHANGED <<storeVars, confVars, sdVars, radioVars, flagVars, taskVars,
                   seenVars>>

\* The time service answers: the wall clock becomes valid.
NtpSync ==
    /\ UNCHANGED reqVars
    /\ sntpStarted
    /\ wifiStatus = "CONNECTED"
    /\ ~timeValid
    /\ timeValid' = TRUE
    /\ UNCHANGED <<now, sntpStarted, lastFileCheckTime, lastHttpTime,
                   lastWatchdogTime, lastWifiCheck, lastClockMinute>>
    /\ UNCHANGED <<storeVars, confVars, sdVars, radioVars, flagVars, taskVars,
                   seenVars>>

(***************************************************************************)
(* The state after construction.                                           *)
(***************************************************************************)
DefaultId == <<Letter(5)>>
DefaultUrl == <<Letter(21)>>
DefaultNtp == <<Letter(14)>>

\* The configuration after loadConfig(): the initializers of the globals, with
\* the interval and the mode an earlier run may have saved in "app_conf".
InitConf(int, mode) ==
    /\ UPDATE_INTERVAL = int
    /\ UPDATE_MODE = mode
    /\ DEVICE_NICKNAME = <<>>
    /\ DEVICE_ID = DefaultId
    /\ API_URL = DefaultUrl
    /\ NTP_SERVER = DefaultNtp
    /\ setPoint1 = 0
    /\ setPoint2 = 0
    /\ app_conf = [hasData |-> (int # 60 \/ mode # 0),
                   data |-> ConfigDoc(<<>>, DefaultId, DefaultUrl, DefaultNtp,
                                      int, mode, 0, 0)]

\* The initializers of the flags and of the target credentials.
InitFlags ==
    /\ deviceConnected = FALSE
    /\ triggerWifiScan = FALSE
    /\ wifiConfigReceived = FALSE
    /\ watchdogPaused = FALSE
    /\ forceHttpNow = FALSE
    /\ targetSSID = <<>>
    /\ targetPass = <<>>

\* The initializers of the time references.
InitTimes ==
    /\ now = 0
    /\ lastFileCheckTime = 0
    /\ lastHttpTime = 0
    /\ lastWatchdogTime = 0
    /\ lastWifiCheck = 0
    /\ lastClockMinute = 0 - 1

\* The main task at position p, with nothing in progress.
InitTask(p) ==
    /\ pc = p
    /\ shouldTrigger = FALSE
    /\ attempts = 0
    /\ savedNets = <<>>
    /\ netIdx = 0
    /\ autoFrom = "none"
    /\ restarting = FALSE

\* Nothing observed yet; n is the number of the first reading.
InitSeen(n) ==
    /\ credOp = "none"
    /\ autoRun = NoAutoRun
    /\ provRun = NoProvRun
    /\ schedRun = NoSchedRun
    /\ lastCall = NoCall
    /\ nextRid = n
    /\ lostRids = {}
    /\ sessionKill = FALSE
    /\ lastWrite = NoWrite
    /\ owedFires = 0
    /\ lastInbound = 0
    /\ arrivals = <<>>
    /\ lastFire = 0

\* setup(): if (!preferences.isKey("nets")) preferences.putString("nets", "[]");
FreshDb == [hasNets |-> TRUE, nets |-> <<>>]

(***************************************************************************)
(* The credential store on its own: any sequence of saveNetworkToMemory    *)
(* and clearSavedWifi calls from the store setup() leaves.                 *)
(***************************************************************************)
InitCred ==
    /\ wifi_db = FreshDb
    /\ sdReady = FALSE
    /\ files = <<>>
    /\ wifiStatus = "DISCONNECTED"
    /\ wifiCfg = NoNet
    /\ timeValid = FALSE
    /\ sntpStarted = FALSE
    /\ InitConf(60, 0) /\ InitFlags /\ InitTimes /\ InitTask("watchdog") /\ InitSeen(1)

CredSave(ssid, pass) ==
    /\ UNCHANGED reqVars
    /\ wifi_db' = saveNetworkToMemory(wifi_db, ssid, pass)
    /\ credOp' = SavePath(wifi_db, ssid)
    /\ UNCHANGED <<autoRun, provRun, schedRun, lastCall, nextRid, lostRids,
                   sessionKill, lastWrite>>
    /\ UNCHANGED <<app_conf, confVars, sdVars, radioVars, flagVars, timeVars,
                   taskVars>>

CredClear ==
    /\ UNCHANGED reqVars
    /\ clearSavedWifi
    /\ credOp' = "clear"
    /\ UNCHANGED <<autoRun, provRun, schedRun, lastCall, nextRid, lostRids,
                   sessionKill, lastWrite>>
    /\ UNCHANGED <<app_conf, confVars, sdVars, flagVars, timeVars, taskVars>>

NextCred ==
    \/ \E ssid \in StoreSsids \cup {<<>>}, pass \in StorePasswords :
           CredSave(ssid, pass)
    \/ CredClear

SpecCred == InitCred /\ [][NextCred]_vars

\* C1: after any sequence of saveNetworkToMemory and clearSavedWifi calls the
\* stored array holds at most 5 entries and no two of them have the same ssid.
StoreBoundedAndUnique ==
    LET nets == GetNets(wifi_db) IN
    /\ Len(nets) <= 5
    /\ \A i, j \in 1..Len(nets) : nets[i].s = nets[j].s => i = j

\* A sixth distinct ssid has been saved into a full store.
StoreFullAfterEviction ==
    /\ credOp = "evict"
    /\ Len(GetNets(wifi_db)) = 5

\* The reference merge rule, as a relation between the array before, the
\* arguments and the array after.
ReferenceMerge(old, ssid, pass, new) ==
    IF ssid = <<>> THEN new = old
    ELSE IF \E i \in 1..Len(old) : old[i].s = ssid
    THEN /\ Len(new) = Len(old)
         /\ \A i \in 1..Len(old) :
                /\ new[i].s = old[i].s
                /\ new[i].p = IF old[i].s = ssid THEN pass ELSE old[i].p
    ELSE IF Len(old) = 5
    THEN /\ Len(new) = 5
         /\ \A i \in 1..4 : new[i] = old[i + 1]
         /\ new[5] = [s |-> ssid, p |-> pass]
    ELSE /\ Len(new) = Len(old) + 1
         /\ \A i \in 1..Len(old) : new[i] = old[i]
         /\ new[Len(new)] = [s |-> ssid, p |-> pass]

\* C2: for every stored array and every ssid and password, saveNetworkToMemory
\* yields exactly the result of the reference merge rule: a present ssid has
\* its password overwritten in place; otherwise at capacity 5 the entry at
\* index 0 is removed and the new entry appended, the others keeping their
\* order; otherwise the entry is appended; an empty ssid changes nothing.
UpsertIsReferenceMerge ==
    \A ssid \in StoreSsids \cup {<<>>}, pass \in StorePasswords :
        LET after == saveNetworkToMemory(wifi_db, ssid, pass) IN
        /\ ReferenceMerge(GetNets(wifi_db), ssid, pass, GetNets(after))
        /\ ssid = <<>> => after = wifi_db

\* An upsert into a full store evicted the oldest entry, and later an upsert of
\* a stored ssid overwrote its password in place.
UpsertEvictedThenUpdated ==
    /\ credOp = "update"
    /\ Len(GetNets(wifi_db)) = 5
    /\ GetNets(wifi_db)[5].s = SsidName(6)
    /\ \E i \in 1..5 : GetNets(wifi_db)[i].p # GetNets(wifi_db)[5].p

(***************************************************************************)
(* The delivery pipeline and the drainer on their own: any sequence of     *)
(* sendSensorData and processOfflineFiles calls, with the radio and the    *)
(* clock moving in between, on a card that may hold entries of earlier     *)
(* runs.                                                                   *)
(***************************************************************************)
OldName(c) == <<SLASH, Letter(c)>>
OldRecord == QueueRecord(Strftime(0, TRUE), SensorString(7))
\* An entry an earlier run queued before its clock was set.
EarlierEntry ==
    [name |-> QueueFileName(Strftime(0, FALSE)),
     lines |-> <<QueueRecord(Strftime(0, FALSE), SensorString(7))>>, rid |-> 0]
ValidEntry == [name |-> OldName(1) \o TXT, lines |-> <<OldRecord>>, rid |-> 0]
GarbageEntry == [name |-> OldName(2) \o TXT, lines |-> <<<<Letter(24)>>>>, rid |-> 0]
EmptyEntry == [name |-> OldName(3) \o TXT, lines |-> <<>>, rid |-> 0]
OtherFile == [name |-> OldName(4), lines |-> <<OldRecord>>, rid |-> 0]

\* What the card holds when the run starts.
InitialCards ==
    {<<>>, <<EarlierEntry>>, <<GarbageEntry, ValidEntry>>,
     <<ValidEntry, EmptyEntry>>, <<OtherFile, ValidEntry>>}

InitQueue ==
    /\ wifi_db = FreshDb
    /\ sdReady \in BOOLEAN
    /\ files \in InitialCards
    /\ wifiStatus = "CONNECTED"
    /\ wifiCfg = [s |-> SsidName(1), p |-> <<Letter(16)>>]
    /\ timeValid = FALSE
    /\ sntpStarted = TRUE
    /\ InitConf(60, 0) /\ InitFlags /\ InitTimes /\ InitTask("watchdog") /\ InitSeen(1)

QueueSend ==
    /\ UNCHANGED reqVars
    /\ \E in \in SendInputs :
           sendSensorData(in.raw, in.resp, in.openOk, in.slow, in.pos)
    /\ UNCHANGED <<now, timeValid, sntpStarted, lastFileCheckTime, lastHttpTime,
                   lastWifiCheck, lastClockMinute>>
    /\ UNCHANGED <<credOp, autoRun, provRun, schedRun, sessionKill, lastWrite>>
    /\ UNCHANGED <<storeVars, confVars, sdReady, radioVars, flagVars, taskVars>>

QueueDrain ==
    /\ UNCHANGED reqVars
    /\ \E in \in DrainInputs(files) :
           processOfflineFiles(in.rootOk, in.script)
    /\ UNCHANGED <<credOp, autoRun, provRun, schedRun, nextRid, lostRids,
                   sessionKill, lastWrite>>
    /\ UNCHANGED <<storeVars, confVars, sdReady, radioVars, flagVars, timeVars,
                   taskVars>>

NextQueue ==
    \/ QueueSend
    \/ QueueDrain
    \/ RadioUp
    \/ RadioDown
    \/ Elapse(1000, MaxQueueTime)

SpecQueue == InitQueue /\ [][NextQueue]_vars

Entries(fs) == {fs[i] : i \in 1..Len(fs)}
EntryNames(fs) == {fs[i].name : i \in 1..Len(fs)}

\* C6: whenever a delivery attempt fails (timeout, a status other than 200, or
\* a body without "true") and the card is ready and the entry can be written,
\* the outcome is QueuedOffline and exactly one entry, holding the single
\* record "timestamp,value" of that reading, is created; when the attempt
\* succeeds no entry is created.
FailedDeliveryCreatesOneEntry ==
    [][\A in \in SendInputs :
         (/\ in.raw # BusError
          /\ sendSensorData(in.raw, in.resp, in.openOk, in.slow, in.pos))
         => IF HttpSuccess(in.resp) THEN files' = files
            ELSE (sdReady /\ in.openOk /\ ~in.slow) =>
                   /\ lastCall'.outcome = "QueuedOffline"
                   /\ Len(files') = Len(files) + 1
                   /\ \E i \in 1..Len(files') :
                          /\ files'[i].lines =
                               <<QueueRecord(Strftime(now, timeValid),
                                             SensorString(in.raw))>>
                          /\ files'[i].rid = nextRid
                          /\ RemoveAll(files', {i}) = files
      ]_vars

\* C7: when a delivery attempt fails and the card is not ready or the entry
\* cannot be opened for writing, the outcome is Lost: the entries of the card
\* are unchanged, the reading is in no entry and in no upload of any later
\* call, and the device keeps running.
LostReadingIsDropped ==
    /\ [][\A in \in SendInputs :
            (/\ in.raw # BusError
             /\ ~HttpSuccess(in.resp)
             /\ ~sdReady \/ ~in.openOk
             /\ sendSensorData(in.raw, in.resp, in.openOk, in.slow, in.pos))
            => /\ lastCall'.outcome = "Lost"
               /\ files' = files
               /\ nextRid \in lostRids'
               /\ ~restarting'
         ]_vars
    /\ [](\A r \in lostRids :
             /\ \A f \in Entries(files) : f.rid # r
             /\ \A k \in 1..Len(lastCall.events) : lastCall.events[k].rid # r)

\* A reading was lost, and a later call of the drainer uploaded an entry.
DrainAfterLostReading ==
    /\ lostRids # {}
    /\ lastCall.op = "drain"
    /\ \E k \in 1..Len(lastCall.events) : lastCall.events[k].ev = "uploaded"

\* C8: in one call of the drainer, as soon as the upload of a well-formed
\* entry fails the batch stops: that entry and every later one in enumeration
\* order still exist unmodified at the return, and nothing after the failed
\* entry was looked at or sent.
DrainStopsAtFirstFailure ==
    [][\A script \in DrainScripts(files) :
         (lastCall'.op = "drain" /\ processOfflineFiles(TRUE, script)) =>
           \A k \in 1..Len(lastCall'.events) :
             lastCall'.events[k].ev = "failed" =>
               LET i == lastCall'.events[k].idx IN
               /\ ~HttpSuccess(script[i])
               /\ k = Len(lastCall'.events)
               /\ \A e \in 1..Len(lastCall'.events) :
                      lastCall'.events[e].idx <= i
               /\ SubSeq(files', Len(files') - (Len(files) - i), Len(files'))
                      = SubSeq(files, i, Len(files))
      ]_vars

\* The drainer uploaded an entry, then failed on a later one, and an entry
\* beyond that one is still on the card.
DrainFailedAfterUpload ==
    /\ lastCall.op = "drain"
    /\ Len(lastCall.events) >= 2
    /\ lastCall.events[1].ev = "uploaded"
    /\ lastCall.events[Len(lastCall.events)].ev = "failed"
    /\ Len(files) >= 2

\* C9: in one call of the drainer, an entry whose first line has no "," is
\* deleted without an upload and the drainer goes on to the next entry in
\* enumeration order; an entry is deleted only if it has no "," or its
\* upload succeeded.
DrainDeletesOnlyMalformedOrUploaded ==
    [][\A script \in DrainScripts(files) :
         (lastCall'.op = "drain" /\ processOfflineFiles(TRUE, script)) =>
           \A i \in 1..Len(files) :
             LET f == files[i]
                 noComma == \A c \in 1..Len(FirstLine(f)) :
                                FirstLine(f)[c] # COMMA
                 seen == {lastCall'.events[k] : k \in 1..Len(lastCall'.events)}
                 here == {e \in seen : e.idx = i}
             IN /\ (/\ \E e \in here : e.ev # "timeout"
                    /\ EndsWith(f.name, TXT)
                    /\ noComma)
                   => /\ \A e \in here : e.ev = "malformed"
                      /\ f.name \notin EntryNames(files')
                      /\ i < Len(files) => \E e \in seen : e.idx = i + 1
                /\ f.name \notin EntryNames(files')
                   => \/ EndsWith(f.name, TXT) /\ noComma
                      \/ /\ HttpSuccess(script[i])
                         /\ \E e \in here : e.ev = "uploaded"
      ]_vars

\* The drainer deleted an entry without a "," and uploaded the next one.
DrainPassedMalformedEntry ==
    /\ lastCall.op = "drain"
    /\ \E k \in 1..(Len(lastCall.events) - 1) :
           /\ lastCall.events[k].ev = "malformed"
           /\ lastCall.events[k + 1].ev = "uploaded"
           /\ lastCall.events[k + 1].idx = lastCall.events[k].idx + 1

(***************************************************************************)
(* The connectivity manager in the running device: setup() from its call   *)
(* of tryAutoConnect() on, then loop(), interleaved with the session       *)
(* callbacks, with provisioning and forget_wifi messages, with the radio   *)
(* and with the clock. No card is fitted, the sensor and the time service  *)
(* do not answer, nobody asks for a scan, and the run is shorter than      *)
(* FILE_CHECK_INTERVAL.                                                    *)
(***************************************************************************)
NetA == [s |-> SsidName(1), p |-> <<Letter(16)>>]
NetB == [s |-> SsidName(2), p |-> <<Letter(17)>>]
NetC == [s |-> SsidName(3), p |-> <<Letter(16)>>]

\* What "wifi_db" holds at boot: what setup() or earlier runs left there.
BootDbs ==
    {FreshDb, [hasNets |-> TRUE, nets |-> <<NetC, NetB, NetA>>]}

\* The messages the peer sends: two provisioning requests (one padded with
\* spaces) and forget_wifi.
ConnMessages ==
    {ProvisionMsg(NetA.s, NetA.p),
     ProvisionMsg(<<SP>> \o NetB.s \o <<SP>>, NetB.p),
     ActionMsg("forget_wifi")}

InitConn ==
    /\ wifi_db \in BootDbs
    /\ sdReady = FALSE
    /\ files = <<>>
    /\ wifiStatus = "DISCONNECTED"
    /\ wifiCfg = NoNet
    /\ timeValid = FALSE
    /\ sntpStarted = FALSE
    /\ InitConf(60, 0) /\ InitFlags /\ InitTimes /\ InitTask("setup_auto")
    /\ InitSeen(MaxReadings + 1)

NextConn ==
    \/ SetupAuto
    \/ AcLoad
    \/ AcBegin
    \/ AcPoll
    \/ AcCheck
    \/ LoopWatchdog
    \/ LoopDrain
    \/ LoopSched
    \/ LoopForce
    \/ LoopSend
    \/ LoopScan
    \/ LoopProv
    \/ LoopProvPoll
    \/ LoopProvDone
    \/ LoopAuto
    \/ LoopDelay
    \/ onConnect
    \/ onDisconnect
    \/ \E m \in ConnMessages : onWrite(m)
    \/ RadioUp
    \/ RadioDown
    \/ Elapse(MaxLoopTime, MaxLoopTime)

SpecConn == InitConn /\ [][NextConn]_vars

\* C3: a provisioning request processed by loop() persists the requested
\* credentials, by saveNetworkToMemory, if and only if the association begun
\* with them succeeded within the wait of at most 20 polls; when it failed the
\* stored array is left as it was and the failure is reported.
ProvisioningPersistsRequested ==
    [][LoopProvDone =>
         /\ attempts <= 20
         /\ IF wifiStatus = "CONNECTED"
            THEN /\ wifi_db' = saveNetworkToMemory(wifi_db, provRun.req.s,
                                                   provRun.req.p)
                 /\ provRun'.result = "connected"
            ELSE /\ wifi_db' = wifi_db
                 /\ provRun'.result = "failed"
      ]_vars

\* The positions of the main task inside an association attempt of
\* tryAutoConnect.
AutoConnecting == pc \in {"ac_begin", "ac_poll", "ac_check"}

\* C4: tryAutoConnect tries the stored credentials strictly in stored order,
\* one association at a time with at most 8 polls each, returns true at the
\* first entry that associates without trying a later one, and false once all
\* are exhausted; with an empty store it returns false at once and begins no
\* association.
AutoConnectInOrderUntilFirstSuccess ==
    LET snap == autoRun.snap
        begun == autoRun.begun
    IN /\ Len(begun) <= Len(snap)
       /\ \A k \in 1..Len(begun) :
              /\ begun[k].idx = k
              /\ begun[k].cred = snap[k]
              /\ k < Len(begun) => ~begun[k].connected
       /\ pc \in {"ac_poll", "ac_check"} =>
              /\ attempts <= 8
              /\ wifiCfg \in {NoNet, begun[Len(begun)].cred}
       /\ autoRun.result = "true" =>
              /\ Len(begun) >= 1
              /\ begun[Len(begun)].connected
       /\ autoRun.result = "false" =>
              /\ Len(begun) = Len(snap)
              /\ \A k \in 1..Len(begun) : ~begun[k].connected
       /\ snap = <<>> => begun = <<>> /\ autoRun.result \in {"none", "false"}
       /\ autoRun.result = "running" <=> (AutoConnecting /\ snap # <<>>)

\* tryAutoConnect returned true at the second of three stored entries, after
\* the first had used up its polls.
AutoConnectedAtSecondEntry ==
    /\ autoRun.result = "true"
    /\ Len(autoRun.snap) = 3
    /\ Len(autoRun.begun) = 2
    /\ wifiCfg = autoRun.snap[2]
    /\ wifiStatus = "CONNECTED"

\* C5: the background reconnect never runs tryAutoConnect while a session is
\* up: in every reachable state, tryAutoConnect called from loop() is not in
\* progress while deviceConnected is true.
NoBackgroundReconnectDuringSession ==
    ~(autoFrom = "loop" /\ AutoConnecting /\ deviceConnected)

(***************************************************************************)
(* The telemetry scheduler in ClockAligned mode: loop() with a valid wall  *)
(* clock, no session, no stored network, and a pass of loop() every        *)
(* ClockStep milliseconds at the latest.                                   *)
(***************************************************************************)
\* The intervals an earlier run saved: 1, 5 and 60 minutes.
ClockIntervals == {60, 300, 3600}

InitClock ==
    /\ wifi_db = FreshDb
    /\ sdReady = FALSE
    /\ files = <<>>
    /\ wifiStatus = "DISCONNECTED"
    /\ wifiCfg = NoNet
    /\ timeValid = TRUE
    /\ sntpStarted = FALSE
    /\ \E int \in ClockIntervals : InitConf(int, 1)
    /\ InitFlags /\ InitTimes /\ InitTask("watchdog")
    /\ InitSeen(MaxReadings + 1)

\* delay(10) and the return of loop(), with d milliseconds gone since the
\* pass began.
LoopDelayFor(d, limit) ==
    /\ UNCHANGED reqVars
    /\ pc = "delay"
    /\ now + d <= limit
    /\ now' = now + d
    /\ pc' = "watchdog"
    /\ UNCHANGED <<timeValid, sntpStarted, lastFileCheckTime, lastHttpTime,
                   lastWatchdogTime, lastWifiCheck, lastClockMinute>>
    /\ UNCHANGED <<shouldTrigger, attempts, savedNets, netIdx, autoFrom,
                   restarting>>
    /\ UNCHANGED <<storeVars, confVars, sdVars, radioVars, flagVars, seenVars>>

NextClock ==
    \/ LoopWatchdog
    \/ LoopDrain
    \/ LoopSched
    \/ LoopForce
    \/ LoopSend
    \/ LoopScan
    \/ LoopProv
    \/ LoopAuto
    \/ AcLoad
    \/ LoopDelay
    \/ LoopDelayFor(ClockStep, MaxClockTime)

SpecClock == InitClock /\ [][NextClock]_vars

\* C10: in ClockAligned mode the trigger fires at most once per qualifying
\* minute: of the passes of loop() that observe the same wall-clock minute m
\* with m mod max(1, UPDATE_INTERVAL / 60) = 0, exactly the first sets the
\* trigger and the later ones do not.
ClockFiresAtFirstTickOnly ==
    schedRun.seen >= 0 => (schedRun.fired <=> schedRun.first)

\* C11: in ClockAligned mode with a valid clock, for every valid interval
\* (3600 s and more included, where only minute 0 qualifies), every
\* occurrence of a qualifying minute that loop() ticks in produces a fire: the
\* first pass that observes it sets the trigger.
ClockFiresOnEveryQualifyingMinute ==
    (schedRun.seen >= 0 /\ schedRun.first) => schedRun.fired

(***************************************************************************)
(* The configuration store with the control channel: the device boots     *)
(* from whatever "app_conf" holds, a peer connects and sends configuration *)
(* patches, loop() runs, and a saved name restarts the device.             *)
(***************************************************************************)
\* loadConfig(): the configuration in memory after the call, from the
\* initializers of the globals and the record in "app_conf".
loadConfig(rec) ==
    IF ~rec.hasData
    THEN ConfigDoc(<<>>, DefaultId, DefaultUrl, DefaultNtp, 60, 0, 0, 0)
    ELSE [rec.data EXCEPT
             !.int = IF validateInterval(@) THEN @ ELSE 60,
             !.mode = IF @ = 0 \/ @ = 1 THEN @ ELSE 0,
             !.sp1 = IF validateSetpoint(@) THEN @ ELSE 0,
             !.sp2 = IF validateSetpoint(@) THEN @ ELSE 0]

\* ESP.restart() takes effect: setup() runs again. What is in RAM is lost, the
\* two namespaces stay, and what was due in the old run is void.
Reboot ==
    /\ restarting
    /\ LET c == loadConfig(app_conf) IN
         /\ DEVICE_NICKNAME' = c.name
         /\ DEVICE_ID' = c.id
         /\ API_URL' = c.url
         /\ NTP_SERVER' = c.ntp
         /\ UPDATE_INTERVAL' = c.int
         /\ UPDATE_MODE' = c.mode
         /\ setPoint1' = c.sp1
         /\ setPoint2' = c.sp2
    /\ wifi_db' = IF wifi_db.hasNets THEN wifi_db ELSE FreshDb
    /\ wifiStatus' = "DISCONNECTED"
    /\ wifiCfg' = NoNet
    /\ deviceConnected' = FALSE
    /\ triggerWifiScan' = FALSE
    /\ wifiConfigReceived' = FALSE
    /\ watchdogPaused' = FALSE
    /\ forceHttpNow' = FALSE
    /\ targetSSID' = <<>>
    /\ targetPass' = <<>>
    /\ now' = 0
    /\ timeValid' = FALSE
    /\ sntpStarted' = FALSE
    /\ lastFileCheckTime' = 0
    /\ lastHttpTime' = 0
    /\ lastWatchdogTime' = 0
    /\ lastWifiCheck' = 0
    /\ lastClockMinute' = 0 - 1
    /\ pc' = "setup_auto"
    /\ shouldTrigger' = FALSE
    /\ attempts' = 0
    /\ savedNets' = <<>>
    /\ netIdx' = 0
    /\ autoFrom' = "none"
    /\ restarting' = FALSE
    /\ autoRun' = NoAutoRun
    /\ provRun' = NoProvRun
    /\ schedRun' = NoSchedRun
    /\ sessionKill' = FALSE
    /\ lastWrite' = NoWrite
    /\ owedFires' = 0
    /\ lastInbound' = 0
    /\ arrivals' = <<>>
    /\ lastFire' = 0
    /\ UNCHANGED <<app_conf, sdVars, credOp, lastCall, nextRid, lostRids>>

NewName == <<Letter(14), Letter(1)>>
NewId == <<Letter(9), Letter(4)>>

\* What "app_conf" holds at boot: nothing, a record an earlier run saved, and
\* records whose numbers are out of range.
PersistedRecords ==
    {[hasData |-> FALSE,
      data |-> ConfigDoc(<<>>, DefaultId, DefaultUrl, DefaultNtp, 60, 0, 0, 0)]}
    \cup {[hasData |-> TRUE,
           data |-> ConfigDoc(<<>>, DefaultId, DefaultUrl, DefaultNtp,
                              r[1], r[2], r[3], r[4])] :
            r \in {<<300, 1, 0, 9999>>,
                   <<0, 0 - 1, 0 - 10000, 10000>>,
                   <<86401, 2, 10000, 0 - 10000>>}}

\* A configuration patch with the fields named in keys.
PatchMsg(keys, int, mode, sp1, sp2) ==
    [Msg("json", keys) EXCEPT !.name = NewName, !.id = NewId, !.int = int,
                              !.mode = mode, !.sp1 = sp1, !.sp2 = sp2]

\* The patches the peer sends: each numeric field alone at and beyond the ends
\* of its range, the strings, and patches that mix valid and invalid fields.
PatchMessages ==
    {PatchMsg({"int"}, v, 0, 0, 0) : v \in {0, 86400, 86401}}
    \cup {PatchMsg({"mode"}, 0, v, 0, 0) : v \in {0 - 1, 1, 2}}
    \cup {PatchMsg({"sp1"}, 0, 0, v, 0) : v \in {0 - 10000, 0 - 9999}}
    \cup {PatchMsg({"sp2"}, 0, 0, 0, v) : v \in {9999, 10000}}
    \cup {PatchMsg({"name"}, 0, 0, 0, 0),
          PatchMsg({"int", "name"}, 86401, 0, 0, 0),
          PatchMsg({"int", "id", "sp1"}, 999999, 0, 0 - 9999, 0),
          PatchMsg({"int", "mode", "sp1", "sp2"}, 0, 2, 10000, 0 - 10000)}

InitPatch ==
    /\ wifi_db = FreshDb
    /\ app_conf \in PersistedRecords
    /\ LET c == loadConfig(app_conf) IN
         /\ DEVICE_NICKNAME = c.name
         /\ DEVICE_ID = c.id
         /\ API_URL = c.url
         /\ NTP_SERVER = c.ntp
         /\ UPDATE_INTERVAL = c.int
         /\ UPDATE_MODE = c.mode
         /\ setPoint1 = c.sp1
         /\ setPoint2 = c.sp2
    /\ sdReady = FALSE
    /\ files = <<>>
    /\ wifiStatus = "DISCONNECTED"
    /\ wifiCfg = NoNet
    /\ timeValid = FALSE
    /\ sntpStarted = FALSE
    /\ InitFlags /\ InitTimes /\ InitTask("setup_auto")
    /\ InitSeen(MaxReadings + 1)

\* What the peer writes: the patches, and an action whose value is a number.
PatchInbound == PatchMessages \cup {ActionMsg(NullPtr)}

NextPatch ==
    \/ SetupAuto
    \/ AcLoad
    \/ LoopWatchdog
    \/ LoopDrain
    \/ LoopSched
    \/ LoopForce
    \/ LoopSend
    \/ LoopScan
    \/ LoopProv
    \/ LoopAuto
    \/ LoopDelay
    \/ onConnect
    \/ onDisconnect
    \/ \E m \in PatchInbound : onWrite(m)
    \/ Reboot

SpecPatch == InitPatch /\ [][NextPatch]_vars

\* C12: every configuration change made through the control channel gets
\* exactly one extra fire of its own: whenever the force flag is clear, no
\* change is left whose fire is still due, under every interleaving of
\* onWrite with the pass of loop() that tests and clears the flag.
ForceFlagGivesOneExtraFire == ~forceHttpNow => owedFires = 0

\* The interval a boot runs with, given what "app_conf" holds.
StoredInterval(rec) ==
    IF rec.hasData /\ rec.data.int >= 1 /\ rec.data.int <= 86400
    THEN rec.data.int ELSE 60

HasNote(notes, message) == \E i \in 1..Len(notes) : notes[i] = message

\* C13: a patch whose int lies outside [1, 86400] is answered with the error
\* message, and the interval in memory and the persisted interval keep their
\* value, whatever other fields the patch carries.
IntervalOutOfRangeRejected ==
    [][\A m \in PatchMessages :
          ("int" \in m.keys /\ (m.int < 1 \/ m.int > 86400) /\ onWrite(m))
          => /\ UPDATE_INTERVAL' = UPDATE_INTERVAL
             /\ StoredInterval(app_conf') = StoredInterval(app_conf)
             /\ app_conf.hasData /\ app_conf.data.int = UPDATE_INTERVAL
                  => app_conf'.data.int = UPDATE_INTERVAL
             /\ HasNote(lastWrite'.notes,
                        "Error: Invalid interval (1-86400)")]_vars

\* C13 witness: a patch with an invalid int and valid other fields was saved,
\* and the interval in memory and in "app_conf" is still the one loaded.
RejectedIntervalInSavedPatch ==
    /\ HasNote(lastWrite.notes, "Error: Invalid interval (1-86400)")
    /\ lastWrite.saved
    /\ DEVICE_ID = NewId
    /\ UPDATE_INTERVAL = 300
    /\ app_conf.data.int = 300

\* The notifications the handler has for other things than an invalid mode.
OtherNotes ==
    {"Error: Invalid interval (1-86400)", "Error: Invalid setpoint 1",
     "Error: Invalid setpoint 2", "Settings Saved.",
     "Name Saved. Restarting..."}

\* C14: every out-of-range field of a patch (int, mode, sp1, sp2) is
\* rejected, reported to the caller with an error message for that field, and
\* the prior value of the field is kept.
InvalidFieldsRejectedAndReported ==
    [][\A m \in PatchMessages : onWrite(m) =>
          /\ ("int" \in m.keys /\ (m.int < 1 \/ m.int > 86400))
               => /\ UPDATE_INTERVAL' = UPDATE_INTERVAL
                  /\ HasNote(lastWrite'.notes,
                             "Error: Invalid interval (1-86400)")
          /\ ("mode" \in m.keys /\ m.mode # 0 /\ m.mode # 1)
               => /\ UPDATE_MODE' = UPDATE_MODE
                  /\ \E i \in 1..Len(lastWrite'.notes) :
                         lastWrite'.notes[i] \notin OtherNotes
          /\ ("sp1" \in m.keys /\ (m.sp1 < 0 - 9999 \/ m.sp1 > 9999))
               => /\ setPoint1' = setPoint1
                  /\ HasNote(lastWrite'.notes, "Error: Invalid setpoint 1")
          /\ ("sp2" \in m.keys /\ (m.sp2 < 0 - 9999 \/ m.sp2 > 9999))
               => /\ setPoint2' = setPoint2
                  /\ HasNote(lastWrite'.notes, "Error: Invalid setpoint 2")]_vars

\* Nothing has changed the configuration since loadConfig() ran.
JustLoaded == pc = "setup_auto" /\ lastWrite = NoWrite /\ ~restarting

\* C15: in every reachable state the interval is in [1, 86400], the mode is
\* Interval or ClockAligned and both setpoints are in [-9999, 9999]; after a
\* load, an invalid persisted interval has become 60, an invalid mode
\* Interval, an invalid setpoint 0, and valid values are the persisted ones.
ConfigAlwaysValid ==
    /\ UPDATE_INTERVAL >= 1 /\ UPDATE_INTERVAL <= 86400
    /\ UPDATE_MODE \in {0, 1}
    /\ setPoint1 >= 0 - 9999 /\ setPoint1 <= 9999
    /\ setPoint2 >= 0 - 9999 /\ setPoint2 <= 9999
    /\ (JustLoaded /\ app_conf.hasData) =>
         LET d == app_conf.data IN
         /\ UPDATE_INTERVAL = IF d.int >= 1 /\ d.int <= 86400 THEN d.int ELSE 60
         /\ UPDATE_MODE = IF d.mode \in {0, 1} THEN d.mode ELSE 0
         /\ setPoint1 = IF d.sp1 >= 0 - 9999 /\ d.sp1 <= 9999 THEN d.sp1 ELSE 0
         /\ setPoint2 = IF d.sp2 >= 0 - 9999 /\ d.sp2 <= 9999 THEN d.sp2 ELSE 0
    /\ (JustLoaded /\ ~app_conf.hasData) =>
         (UPDATE_INTERVAL = 60 /\ UPDATE_MODE = 0 /\ setPoint1 = 0 /\ setPoint2 = 0)

\* C15 witness: the device booted from a record with every number out of
\* range, runs with the fallbacks, and has refused a patch with every number
\* out of range.
FallbacksLoadedAndPatchRefused ==
    /\ app_conf.hasData
    /\ app_conf.data.int = 86401 /\ app_conf.data.mode = 2
    /\ app_conf.data.sp1 = 10000
    /\ UPDATE_INTERVAL = 60 /\ UPDATE_MODE = 0 /\ setPoint1 = 0 /\ setPoint2 = 0
    /\ Len(lastWrite.notes) = 3
    /\ pc = "sched"

(***************************************************************************)
(* The session watchdog: a peer connects, sends messages or stays silent,  *)
(* time passes, and loop() runs with the sensor answering in Interval mode. *)
(***************************************************************************)
\* The messages the peer sends: the heartbeat and a write of no bytes.
DogMessages == {ActionMsg("ping"), Msg("empty", {})}

InitDog ==
    /\ wifi_db = FreshDb
    /\ sdReady = FALSE
    /\ files = <<>>
    /\ wifiStatus = "DISCONNECTED"
    /\ wifiCfg = NoNet
    /\ timeValid = FALSE
    /\ sntpStarted = FALSE
    /\ InitConf(2, 0) /\ InitFlags /\ InitTimes /\ InitTask("watchdog")
    /\ InitSeen(1)

NextDog ==
    \/ LoopWatchdog
    \/ LoopDrain
    \/ LoopSched
    \/ LoopForce
    \/ LoopSend
    \/ LoopScan
    \/ LoopProv
    \/ LoopAuto
    \/ LoopDelay
    \/ onConnect
    \/ onDisconnect
    \/ \E m \in DogMessages : onWrite(m)
    \/ Elapse(DogStep, MaxDogTime)

SpecDog == InitDog /\ [][NextDog]_vars

\* C16: while a session is up and the watchdog is not paused, a pass of
\* loop() that finds no inbound message (and no session connect) for more
\* than 3 s closes the session; nothing else postpones that.
WatchdogEndsQuietSession ==
    [][(/\ LoopWatchdog
        /\ deviceConnected
        /\ ~watchdogPaused
        /\ now - lastInbound > 3000) => sessionKill']_vars

\* C17: the callback context only validates and enqueues: no onWrite step,
\* forget_wifi and configuration patches included, writes a persistent
\* store, calls the radio, writes to the sensor bus or restarts the device;
\* those happen in loop() on a later pass.
CallbackOnlyEnqueues ==
    [][(\E m \in PatchMessages \cup ConnMessages : onWrite(m))
       => /\ UNCHANGED <<wifi_db, app_conf>>
          /\ lastWrite'.radio = <<>>
          /\ lastWrite'.bus = <<>>
          /\ ~lastWrite'.saved
          /\ restarting' = restarting]_vars

(***************************************************************************)
(* Requests from the control channel: a peer asks for scans and sends      *)
(* credentials while loop() runs and the radio comes and goes.             *)
(***************************************************************************)
ReqMessages ==
    {ActionMsg("scan"),
     ProvisionMsg(NetA.s, NetA.p),
     ProvisionMsg(NetB.s, NetB.p)}

InitReq ==
    /\ wifi_db = FreshDb
    /\ sdReady = FALSE
    /\ files = <<>>
    /\ wifiStatus = "DISCONNECTED"
    /\ wifiCfg = NoNet
    /\ timeValid = FALSE
    /\ sntpStarted = FALSE
    /\ InitConf(60, 0) /\ InitFlags /\ InitTimes /\ InitTask("watchdog")
    /\ InitSeen(MaxReadings + 1)

NextReq ==
    \/ LoopWatchdog
    \/ LoopDrain
    \/ LoopSched
    \/ LoopForce
    \/ LoopSend
    \/ LoopScan
    \/ LoopScanRun
    \/ LoopProv
    \/ LoopProvPoll
    \/ LoopProvDone
    \/ LoopAuto
    \/ LoopDelay
    \/ onConnect
    \/ onDisconnect
    \/ \E m \in ReqMessages : onWrite(m)
    \/ RadioUp
    \/ RadioDown

SpecReq == InitReq /\ [][NextReq]_vars

\* C18: loop() takes the requests the callbacks left in the order they
\* arrived, and every one of them: the scan or the provisioning it starts is
\* the oldest request waiting (a provisioning with the credentials of that
\* very request), and the later ones stay waiting for their own turn.
RequestsServedInArrivalOrder ==
    [][/\ (LoopScan /\ triggerWifiScan)
          => /\ arrivals # <<>>
             /\ Head(arrivals).kind = "scan"
             /\ arrivals' = Tail(arrivals)
       /\ (LoopProv /\ wifiConfigReceived)
          => /\ arrivals # <<>>
             /\ Head(arrivals) = [kind |-> "prov", cred |-> wifiCfg']
             /\ arrivals' = Tail(arrivals)]_vars

\* A connectivity operation of loop() or setup() is in progress.
ConnectivityBusy ==
    pc \in {"ac_begin", "ac_poll", "ac_check", "scan_run", "prov_poll",
            "prov_done"}

\* C19: at most one connectivity operation is in flight: autoConnect and
\* provisioning are never both running, and while autoConnect, provisioning
\* or a scan is in progress no other context calls the radio to change the
\* association.
OneConnectivityOperationAtATime ==
    [][/\ ~(autoRun'.result = "running" /\ provRun'.result = "running")
       /\ (ConnectivityBusy /\ \E m \in ConnMessages : onWrite(m))
            => lastWrite'.radio = <<>>]_vars

\* preferences.clear() removes the key "nets", which setup() created and only
\* saveNetworkToMemory writes again: the key is missing from a forget_wifi
\* until the next credential is saved.
ForgetHandled == ~wifi_db.hasNets

\* C20: once forget_wifi has been handled the credential sequence is empty,
\* and no association made from credentials saved before the request is
\* held: tryAutoConnect, which works from the sequence it read, neither is
\* connected nor has returned connected, whatever loop() was doing when the
\* request came.
ForgetWifiLeavesNothing ==
    ForgetHandled =>
        /\ GetNets(wifi_db) = <<>>
        /\ wifiStatus = "CONNECTED" =>
             (~AutoConnecting /\ autoRun.result # "true")

\* C21: the device restarts only in a step that handles a configuration
\* patch whose name differs from the nickname in force, and in that step the
\* confirmation "Name Saved. Restarting..." has been sent; no other message
\* and no patch that leaves the nickname as it was sets the restart off.
RestartOnlyAfterNicknameChange ==
    [][(restarting' /\ ~restarting)
       => \E m \in PatchInbound :
             /\ onWrite(m)
             /\ "action" \notin m.keys
             /\ "name" \in m.keys
             /\ m.name # DEVICE_NICKNAME
             /\ HasNote(lastWrite'.notes, "Name Saved. Restarting...")]_vars

\* C21, the patch part alone: a patch whose name is the nickname already in
\* force does not restart the device.
SameNameDoesNotRestart ==
    [][\A m \in PatchMessages :
          (onWrite(m) /\ "name" \in m.keys /\ m.name = DEVICE_NICKNAME)
          => ~restarting']_vars

(***************************************************************************)
(* Dispatch of inbound messages: the peer writes messages of every shape,  *)
(* some with fields of several shapes, while loop() serves the requests.   *)
(***************************************************************************)
DispatchMessages ==
    {[ActionMsg("scan") EXCEPT !.keys = {"action", "int", "ssid", "pass"},
                               !.int = 120, !.ssid = NetA.s, !.pass = NetA.p],
     [ActionMsg("ping") EXCEPT !.keys = {"action", "mode", "ssid"},
                               !.mode = 1, !.ssid = NetB.s],
     [Msg("json", {"int", "ssid", "pass"}) EXCEPT
          !.int = 120, !.ssid = NetA.s, !.pass = NetA.p],
     ProvisionMsg(NetA.s, NetA.p),
     ProvisionMsg(<<SP>>, NetB.p),
     Msg("text", {}),
     Msg("empty", {}),
     Msg("json", {})}

NextDispatch ==
    \/ LoopWatchdog
    \/ LoopDrain
    \/ LoopSched
    \/ LoopForce
    \/ LoopSend
    \/ LoopScan
    \/ LoopScanRun
    \/ LoopProv
    \/ LoopProvPoll
    \/ LoopProvDone
    \/ LoopAuto
    \/ LoopDelay
    \/ onConnect
    \/ onDisconnect
    \/ \E m \in DispatchMessages : onWrite(m)
    \/ RadioUp
    \/ RadioDown

SpecDispatch == InitReq /\ [][NextDispatch]_vars

\* C22: a message is handled as one shape only. With an action, nothing but
\* the action acts: configuration, target credentials, the provisioning
\* request and the force flag stay, and a scan is requested by "scan" alone.
\* Otherwise, with a configuration field, it is a patch and no request is
\* made. Otherwise, with an ssid that is not empty once trimmed, one
\* provisioning request is made for the trimmed pair. Any other message
\* (empty, not JSON, no known field, a blank ssid) leaves everything but the
\* activity timestamp as it was.
DispatchedByOneShape ==
    [][\A m \in DispatchMessages : onWrite(m) =>
          IF m.wire = "json" /\ "action" \in m.keys
          THEN /\ UNCHANGED <<confVars, app_conf, targetSSID, targetPass,
                              wifiConfigReceived, forceHttpNow>>
               /\ m.action # "forget_wifi" => UNCHANGED wifi_db
               /\ triggerWifiScan' = (triggerWifiScan \/ m.action = "scan")
               /\ arrivals' = IF m.action = "scan"
                              THEN Append(arrivals,
                                          [kind |-> "scan", cred |-> NoNet])
                              ELSE arrivals
          ELSE IF m.wire = "json" /\ m.keys \cap ConfigKeys # {}
          THEN UNCHANGED <<wifi_db, targetSSID, targetPass, wifiConfigReceived,
                           triggerWifiScan, arrivals>>
          ELSE IF m.wire = "json" /\ "ssid" \in m.keys /\ Len(Trim(m.ssid)) > 0
          THEN /\ wifiConfigReceived'
               /\ targetSSID' = Trim(m.ssid)
               /\ arrivals' = Append(arrivals,
                                     [kind |-> "prov",
                                      cred |-> [s |-> targetSSID',
                                                p |-> targetPass']])
               /\ UNCHANGED <<storeVars, confVars, triggerWifiScan,
                              forceHttpNow>>
          ELSE /\ UNCHANGED <<storeVars, confVars, sdVars, radioVars, flagVars,
                              taskVars, arrivals>>
               /\ UNCHANGED <<now, timeValid, sntpStarted, lastFileCheckTime,
                              lastHttpTime, lastWifiCheck, lastClockMinute>>]_vars

\* C22 without its last clause: the three shapes and their precedence.
DispatchPrecedence ==
    [][\A m \in DispatchMessages : onWrite(m) =>
          IF m.wire = "json" /\ "action" \in m.keys
          THEN /\ UNCHANGED <<confVars, app_conf, targetSSID, targetPass,
                              wifiConfigReceived, forceHttpNow>>
               /\ triggerWifiScan' = (triggerWifiScan \/ m.action = "scan")
          ELSE IF m.wire = "json" /\ m.keys \cap ConfigKeys # {}
          THEN UNCHANGED <<wifi_db, targetSSID, targetPass, wifiConfigReceived,
                           triggerWifiScan, arrivals>>
          ELSE IF m.wire = "json" /\ "ssid" \in m.keys /\ Len(Trim(m.ssid)) > 0
          THEN wifiConfigReceived' /\ targetSSID' = Trim(m.ssid)
          ELSE TRUE]_vars

(***************************************************************************)
(* A long queue: the card holds more entries than one drain invocation     *)
(* uploads, some of them malformed.                                        *)
(***************************************************************************)
MaxBatch == 7

QueuedEntry(c) == [name |-> OldName(c) \o TXT, lines |-> <<OldRecord>>, rid |-> 0]
BrokenEntry(c) == [name |-> OldName(c) \o TXT, lines |-> <<<<Letter(24)>>>>, rid |-> 0]

\* What the card holds when the run starts: well-formed entries only, and
\* the same with a malformed entry first, among them or last.
BatchCards ==
    {[c \in 1..MaxBatch |-> QueuedEntry(c)]}
        \cup {[c \in 1..MaxBatch |-> IF c = k THEN BrokenEntry(c) ELSE QueuedEntry(c)] :
                 k \in {1, 3, MaxBatch}}

InitBatch ==
    /\ wifi_db = FreshDb
    /\ sdReady = TRUE
    /\ files \in BatchCards
    /\ wifiStatus = "CONNECTED"
    /\ wifiCfg = [s |-> SsidName(1), p |-> <<Letter(16)>>]
    /\ timeValid = FALSE
    /\ sntpStarted = TRUE
    /\ InitConf(60, 0) /\ InitFlags /\ InitTimes /\ InitTask("watchdog") /\ InitSeen(1)

NextBatch ==
    \/ QueueDrain
    \/ RadioUp
    \/ RadioDown

SpecBatch == InitBatch /\ [][NextBatch]_vars

\* The entries one invocation deleted or tried to deliver.
Handled(events) ==
    Cardinality({i \in 1..Len(events) :
                    events[i].ev \in {"uploaded", "failed", "malformed"}})

\* C23: one invocation of the drainer handles at most 5 entries, counting
\* the entries it uploaded and deleted, the entry whose upload failed and the
\* malformed entries it deleted.
DrainHandlesAtMostFive ==
    lastCall.op = "drain" => Handled(lastCall.events) <= 5

\* C23, the uploads alone: one invocation uploads at most 5 entries.
DrainUploadsAtMostFive ==
    lastCall.op = "drain"
        => Cardinality({i \in 1..Len(lastCall.events) :
                           lastCall.events[i].ev = "uploaded"}) <= 5

(***************************************************************************)
(* Interval mode with force fires: time passes in the delay that ends a    *)
(* pass of loop(), and a peer changes the configuration now and then.      *)
(***************************************************************************)
FireMessages == {PatchMsg({"id"}, 0, 0, 0, 0)}

NextFire ==
    \/ LoopWatchdog
    \/ LoopDrain
    \/ LoopSched
    \/ LoopForce
    \/ LoopSend
    \/ LoopScan
    \/ LoopProv
    \/ LoopAuto
    \/ LoopDelay
    \/ LoopDelayFor(DogStep, MaxDogTime)
    \/ onConnect
    \/ onDisconnect
    \/ \E m \in FireMessages : onWrite(m)

SpecFire == InitDog /\ [][NextFire]_vars

\* C24: in Interval mode, a fire the interval test triggers comes more than
\* UPDATE_INTERVAL seconds after the last fire attempt, whether that attempt
\* was triggered by the interval or by the force flag: every fire attempt
\* restarts the interval.
IntervalRestartsAtEveryFire ==
    [][(LoopSched /\ UPDATE_MODE = 0 /\ shouldTrigger' /\ lastFire > 0)
       => now - lastFire > UPDATE_INTERVAL * 1000]_vars

\* C24, the interval fires alone: lastHttpTime is the time of the last fire
\* the interval test triggered, and two such fires are more than
\* UPDATE_INTERVAL seconds apart.
IntervalFiresApart ==
    [][(LoopSched /\ UPDATE_MODE = 0 /\ shouldTrigger')
       => /\ now - lastHttpTime > UPDATE_INTERVAL * 1000
          /\ lastHttpTime' = now]_vars

\* C25: what a successful provisioning stores is the pair the radio is
\* associated with, the one the attempt was begun with: the stored array
\* becomes the array with that pair saved, under every interleaving with a
\* callback that overwrites the target credentials.
StoredPairIsAssociatedPair ==
    [][(LoopProvDone /\ ProvSaves(wifiStatus))
       => /\ wifiCfg = provRun.req
          /\ wifi_db' = saveNetworkToMemory(wifi_db, wifiCfg.s, wifiCfg.p)]_vars

\* C25, the radio's part: the association a provisioning attempt ends with is
\* the one it was begun with.
AssociatedPairIsRequested ==
    [][(LoopProvDone /\ ProvSaves(wifiStatus)) => wifiCfg = provRun.req]_vars

\* The readings of this run that have an entry of their own on the card.
QueuedRids(fs) == {fs[i].rid : i \in 1..Len(fs)} \ {0}

\* C26: a reading that was queued stays on the card as its own entry until
\* the drainer has delivered it: in every step, an entry of a reading that
\* is gone afterwards was uploaded by a drain in that step. Two readings
\* queued within the same second keep an entry each.
NoQueuedReadingLost ==
    [][\A r \in QueuedRids(files) \ QueuedRids(files') :
          /\ lastCall'.op = "drain"
          /\ \E i \in 1..Len(lastCall'.events) :
                 /\ lastCall'.events[i].ev = "uploaded"
                 /\ lastCall'.events[i].rid = r]_vars

\* C26, the drainer's part: a drain removes the entry of a reading only by
\* uploading it.
DrainLosesNoReading ==
    [][QueueDrain =>
         \A r \in QueuedRids(files) \ QueuedRids(files') :
             \E i \in 1..Len(lastCall'.events) :
                 /\ lastCall'.events[i].ev = "uploaded"
                 /\ lastCall'.events[i].rid = r]_vars

=============================================================================
